---- MODULE Spec2Model ----
(***************************************************************************)
(* BitsChess: board representation, attack tables, legal move generation,  *)
(* make/unmake with Zobrist hashing and the repetition table.              *)
(*                                                                         *)
(* A u64 bitboard is modelled as the set of the squares whose bit is set:  *)
(* & is \cap, | is \cup, ^ is the symmetric difference, !x is ALL \ x.     *)
(* A 64-bit Zobrist hash is modelled as the set of the indices of the      *)
(* ZOBRIST_KEYS that are XORed into it (the keys are random numbers of an  *)
(* external generator), so that ^ is again the symmetric difference and    *)
(* the hash 0 is the empty set.                                            *)
(***************************************************************************)
EXTENDS Integers, Naturals, Sequences, FiniteSets, TLC

\* ------------------------------------------------------------------ bits
ALL == 0..63

Xor(a, b) == (a \ b) \cup (b \ a)

Not(a) == ALL \ a

\* x << n and x >> n on a u64: bits shifted out are lost
Shl(bb, n) == {s + n : s \in bb} \cap ALL

Shr(bb, n) == {s - n : s \in bb} \cap ALL

Bit(square) == {square} \cap ALL

Min(S) == CHOOSE x \in S : \A y \in S : x <= y

\* u64::trailing_zeros: 64 for an empty bitboard
bitscan_forward(bb) == IF bb = {} THEN 64 ELSE Min(bb)

get_rank(square) == square \div 8

get_file(square) == square % 8

\* ------------------------------------------------------------------ pieces
None == 0
Pawn == 1
Knight == 2
Bishop == 3
Rook == 4
Queen == 5
King == 6

White == 0
Black == 1

flipped(color) == 1 - color

\* Piece(u8): bits 0-2 the type, bit 7 the colour
NewPiece(t, color) == t + 128 * color

get_piece_type(p) == p % 8

get_color(p) == (p \div 128) % 2

is_none(p) == (p % 8) = 0 \/ p = 255

\* Piece::set_piece: replaces the type bits
set_piece_type(p, t) == (p - (p % 8)) + t

get_side_index(t, side) == side * 6 + (t - 1)

get_piece_index(p) == get_side_index(get_piece_type(p), get_color(p))

\* ------------------------------------------------------------------ squares
A1 == 0
C1 == 2
D1 == 3
E1 == 4
F1 == 5
G1 == 6
H1 == 7
A8 == 56
C8 == 58
D8 == 59
F8 == 61
G8 == 62
H8 == 63

\* ------------------------------------------------------------------ moves
FlagNone == 0
EnPassant == 1
PawnTwoUp == 2
Castle == 3
PromoteKnight == 4
PromoteBishop == 5
PromoteRook == 6
PromoteQueen == 7

\* Move(u16): low 6 bits from, next 6 bits to, then the flag
NewMove(from, to, flag) == (from % 64) + 64 * (to % 64) + 4096 * flag

get_from_idx(m) == m % 64

get_to_idx(m) == (m \div 64) % 64

get_flag(m) == (m \div 4096) % 8

\* ------------------------------------------------------------------ files
A_FILE == {s \in ALL : s % 8 = 0}
B_FILE == Shl(A_FILE, 1)
AB_FILE == A_FILE \cup B_FILE
NOT_A_FILE == Not(A_FILE)
NOT_AB_FILE == Not(AB_FILE)
H_FILE == Shl(A_FILE, 7)
G_FILE == Shl(A_FILE, 6)
HG_FILE == H_FILE \cup G_FILE
NOT_H_FILE == Not(H_FILE)
NOT_HG_FILE == Not(HG_FILE)

\* ------------------------------------------------------------------ attacks
get_pawn_attack(side, square) ==
    LET bb == {square}
    IN IF side = White
       THEN (IF (Shl(bb, 7) \cap NOT_H_FILE) # {} THEN Shl(bb, 7) ELSE {})
            \cup (IF (Shl(bb, 9) \cap NOT_A_FILE) # {} THEN Shl(bb, 9) ELSE {})
       ELSE (IF (Shr(bb, 7) \cap NOT_A_FILE) # {} THEN Shr(bb, 7) ELSE {})
            \cup (IF (Shr(bb, 9) \cap NOT_H_FILE) # {} THEN Shr(bb, 9) ELSE {})

get_knight_attack(square) ==
    LET bb == {square}
    IN (IF (bb \cap Shl(NOT_H_FILE, 17)) # {} THEN Shr(bb, 17) ELSE {})
       \cup (IF (bb \cap Shl(NOT_A_FILE, 15)) # {} THEN Shr(bb, 15) ELSE {})
       \cup (IF (bb \cap Shl(NOT_HG_FILE, 10)) # {} THEN Shr(bb, 10) ELSE {})
       \cup (IF (bb \cap Shl(NOT_AB_FILE, 6)) # {} THEN Shr(bb, 6) ELSE {})
       \cup (IF (bb \cap Shr(NOT_A_FILE, 17)) # {} THEN Shl(bb, 17) ELSE {})
       \cup (IF (bb \cap Shr(NOT_H_FILE, 15)) # {} THEN Shl(bb, 15) ELSE {})
       \cup (IF (bb \cap Shr(NOT_AB_FILE, 10)) # {} THEN Shl(bb, 10) ELSE {})
       \cup (IF (bb \cap Shr(NOT_HG_FILE, 6)) # {} THEN Shl(bb, 6) ELSE {})

get_king_attack(square) ==
    LET bb == {square}
    IN (IF Shr(bb, 8) # {} THEN Shr(bb, 8) ELSE {})
       \cup (IF (Shr(bb, 7) \cap NOT_A_FILE) # {} THEN Shr(bb, 7) ELSE {})
       \cup (IF (Shr(bb, 9) \cap NOT_H_FILE) # {} THEN Shr(bb, 9) ELSE {})
       \cup (IF (Shr(bb, 1) \cap NOT_H_FILE) # {} THEN Shr(bb, 1) ELSE {})
       \cup (IF Shl(bb, 8) # {} THEN Shl(bb, 8) ELSE {})
       \cup (IF (Shl(bb, 7) \cap NOT_H_FILE) # {} THEN Shl(bb, 7) ELSE {})
       \cup (IF (Shl(bb, 9) \cap NOT_A_FILE) # {} THEN Shl(bb, 9) ELSE {})
       \cup (IF (Shl(bb, 1) \cap NOT_A_FILE) # {} THEN Shl(bb, 1) ELSE {})

\* One loop of the ray walks of get_bishop_attack_mask / get_rook_attack_mask:
\* the squares (r0 + k*dr, f0 + k*df), k = 1, 2, ..., while rank and file stay
\* inside lo..hi, every square visited being added and the walk ending after
\* the first square that is a blocker.
RECURSIVE Walk(_, _, _, _, _, _, _)
Walk(r, f, dr, df, lo, hi, blockers) ==
    LET nr == r + dr
        nf == f + df
        sq == nr * 8 + nf
    IN IF nr < lo \/ nr > hi \/ nf < lo \/ nf > hi THEN {}
       ELSE IF sq \in blockers THEN {sq}
       ELSE {sq} \cup Walk(nr, nf, dr, df, lo, hi, blockers)

get_bishop_attack_mask(square, blockers) ==
    LET tr == square \div 8
        tf == square % 8
    IN Walk(tr, tf, 1, 1, 0, 7, blockers) \cup Walk(tr, tf, -1, 1, 0, 7, blockers)
       \cup Walk(tr, tf, 1, -1, 0, 7, blockers) \cup Walk(tr, tf, -1, -1, 0, 7, blockers)

get_rook_attack_mask(square, blockers) ==
    LET tr == square \div 8
        tf == square % 8
    IN Walk(tr, tf, 1, 0, 0, 7, blockers) \cup Walk(tr, tf, -1, 0, 0, 7, blockers)
       \cup Walk(tr, tf, 0, 1, 0, 7, blockers) \cup Walk(tr, tf, 0, -1, 0, 7, blockers)

PAWN_ATTACKS == [side \in 0..1 |-> [square \in ALL |-> get_pawn_attack(side, square)]]

KNIGHT_ATTACKS == [square \in ALL |-> get_knight_attack(square)]

KING_ATTACKS == [square \in ALL |-> get_king_attack(square)]

BETWEENS ==
    [from \in ALL |-> [to \in ALL |->
        LET occupancy == {from}
            to_bishop_mask == get_bishop_attack_mask(to, occupancy)
            to_rook_mask == get_rook_attack_mask(to, occupancy)
            occupancy_2 == {to}
            from_bishop_mask == get_bishop_attack_mask(from, occupancy_2)
            from_rook_mask == get_rook_attack_mask(from, occupancy_2)
        IN IF (to_bishop_mask \cap occupancy) # {} THEN to_bishop_mask \cap from_bishop_mask
           ELSE IF (to_rook_mask \cap occupancy) # {} THEN to_rook_mask \cap from_rook_mask
           ELSE {}]]

\* ------------------------------------------------------------------ magics
\* relevance masks: the inner squares of the rays
bishop_mask(square) ==
    LET tr == square \div 8
        tf == square % 8
    IN {(tr + k) * 8 + (tf + k) : k \in {j \in 1..7 : tr + j <= 6 /\ tf + j <= 6}}
       \cup {(tr - k) * 8 + (tf + k) : k \in {j \in 1..7 : tr - j >= 1 /\ tf + j <= 6}}
       \cup {(tr + k) * 8 + (tf - k) : k \in {j \in 1..7 : tr + j <= 6 /\ tf - j >= 1}}
       \cup {(tr - k) * 8 + (tf - k) : k \in {j \in 1..7 : tr - j >= 1 /\ tf - j >= 1}}

rook_mask(square) ==
    LET tr == square \div 8
        tf == square % 8
    IN {r * 8 + tf : r \in (tr + 1)..6} \cup {r * 8 + tf : r \in 1..(tr - 1)}
       \cup {tr * 8 + f : f \in (tf + 1)..6} \cup {tr * 8 + f : f \in 1..(tf - 1)}

BISHOP_MASK == [square \in ALL |-> bishop_mask(square)]

ROOK_MASK == [square \in ALL |-> rook_mask(square)]

\* BISHOP_ATTACK_MAP / ROOK_ATTACK_MAP store, at the magic index of every
\* subset b of the relevance mask, the ray walk for b; the lookup masks the
\* blockers first, so it returns the entry written for blockers & mask.
get_bishop_magic(square, blockers) ==
    get_bishop_attack_mask(square, blockers \cap BISHOP_MASK[square])

get_rook_magic(square, blockers) ==
    get_rook_attack_mask(square, blockers \cap ROOK_MASK[square])

\* the u64 magics of magics.rs, each as its four 16-bit limbs, lowest first;
\* entry square + 1 is the magic of the square
ROOK_MAGICS ==
    <<<<16384, 20512, 2178, 128>>, <<8192, 4096, 16384, 4160>>, <<8192, 2176, 4096, 12416>>,
      <<8256, 4104, 1536, 512>>, <<256, 520, 4100, 2304>>, <<512, 1160, 4097, 25088>>,
      <<512, 6272, 256, 1152>>, <<128, 9472, 448, 640>>, <<68, 130, 33, 2>>,
      <<8192, 64, 16400, 130>>, <<2114, 32, 17, 41>>, <<34, 16394, 16, 16394>>,
      <<32, 2066, 4, 2>>, <<4, 20482, 8, 10>>, <<132, 3, 14, 19>>,
      <<17152, 5250, 2, 323>>, <<139, 2112, 9344, 9280>>, <<16384, 8192, 64, 272>>,
      <<8256, 4228, 512, 10754>>, <<32, 4106, 16896, 40>>, <<16896, 1024, 64, 24>>,
      <<1024, 520, 256, 5121>>, <<513, 2064, 1024, 1280>>, <<19716, 132, 4608, 256>>,
      <<8192, 16384, 64, 1152>>, <<12288, 16384, 64, 32>>, <<16640, 16, 8193, 4128>>,
      <<544, 16, 2305, 20>>, <<4352, 4, 2049, 2056>>, <<2, 4, 73, 2049>>,
      <<258, 16, 2052, 2048>>, <<24708, 0, 4354, 4224>>, <<136, 8832, 16384, 0>>,
      <<8192, 1088, 16400, 262>>, <<6400, 256, 16416, 0>>, <<4104, 512, 8514, 35>>,
      <<1040, 256, 8, 3617>>, <<2053, 512, 16, 258>>, <<4289, 1024, 520, 5128>>,
      <<8322, 16640, 0, 35>>, <<33, 65, 128, 28673>>, <<36, 130, 66, 561>>,
      <<65, 8578, 784, 258>>, <<8, 33, 16, 1025>>, <<17, 5, 8, 1>>,
      <<2, 1025, 8, 16593>>, <<1, 4100, 2050, 1028>>, <<7, 2114, 4740, 528>>,
      <<832, 544, 64, 128>>, <<512, 146, 8261, 0>>, <<256, 8193, 5440, 33>>,
      <<256, 2064, 33, 1589>>, <<1280, 16, 2049, 1024>>, <<1152, 128, 2, 2612>>,
      <<1024, 18562, 304, 5152>>, <<512, 17411, 10385, 4236>>, <<65, 4224, 32, 10529>>,
      <<137, 33, 4160, 32>>, <<9, 32, 4165, 12424>>, <<16418, 4100, 8, 2>>,
      <<8194, 4100, 8, 10242>>, <<513, 8, 4, 4099>>, <<2052, 4113, 162, 8260>>,
      <<17410, 8320, 2308, 544>>>>

ROOK_SHIFTS ==
    <<12, 11, 11, 11, 11, 11, 11, 12,
      11, 10, 10, 10, 10, 10, 10, 11,
      11, 10, 10, 10, 10, 10, 10, 11,
      11, 10, 10, 10, 10, 10, 10, 11,
      11, 10, 10, 10, 10, 10, 10, 11,
      11, 10, 10, 10, 10, 10, 10, 11,
      11, 10, 10, 10, 10, 10, 10, 11,
      12, 11, 11, 11, 11, 11, 11, 12>>

BISHOP_MAGICS ==
    <<<<32, 276, 4100, 14018>>, <<8224, 1024, 10257, 137>>, <<1030, 17152, 18954, 322>>,
      <<3088, 16448, 8264, 2120>>, <<16400, 648, 1056, 132>>, <<97, 1541, 528, 34>>,
      <<8, 529, 336, 258>>, <<8257, 16928, 8448, 6150>>, <<16512, 4134, 24642, 5>>,
      <<40, 16946, 17456, 8>>, <<384, 82, 8726, 526>>, <<8, 4640, 2058, 640>>,
      <<0, 8328, 9220, 1408>>, <<0, 2080, 2113, 32>>, <<4096, 288, 513, 16480>>,
      <<2176, 264, 548, 4096>>, <<2052, 17537, 4112, 288>>, <<6912, 16660, 1029, 1568>>,
      <<17064, 337, 528, 8>>, <<2064, 16448, 8, 4>>, <<2048, 8712, 136, 4100>>,
      <<16448, 8328, 0, 513>>, <<20481, 16708, 0, 12>>, <<1032, 4228, 8450, 8208>>,
      <<4096, 4868, 8195, 16386>>, <<320, 8193, 2113, 2120>>, <<16896, 4104, 256, 8705>>,
      <<128, 5188, 1024, 261>>, <<16386, 1040, 256, 4101>>, <<24580, 64, 128, 12808>>,
      <<2080, 65, 288, 136>>, <<18432, 64, 1280, 20993>>, <<1024, 32, 18437, 8336>>,
      <<256, 288, 656, 6178>>, <<512, 1025, 1026, 8228>>, <<262, 9, 24584, 12978>>,
      <<256, 4113, 4160, 64>>, <<64, 16386, 4352, 48>>, <<8451, 514, 4228, 20484>>,
      <<8704, 22528, 266, 4632>>, <<16386, 1040, 2121, 5133>>, <<1290, 8197, 2561, 522>>,
      <<18432, 13312, 32, 2>>, <<8448, 6148, 32, 330>>, <<11296, 512, 8450, 516>>,
      <<66, 128, 8216, 4129>>, <<1024, 73, 16900, 5257>>, <<16898, 24641, 9218, 140>>,
      <<384, 1028, 2584, 16396>>, <<22528, 288, 16676, 16>>, <<4096, 1028, 2116, 512>>,
      <<290, 1033, 2049, 16512>>, <<8192, 2628, 32, 2176>>, <<16896, 22530, 1056, 11392>>,
      <<18, 20228, 8968, 48>>, <<18434, 256, 4116, 515>>, <<16384, 1156, 24844, 128>>,
      <<8196, 2188, 16706, 0>>, <<2073, 82, 290, 578>>, <<552, 3650, 16384, 4128>>,
      <<21505, 8194, 8240, 0>>, <<4644, 12290, 64, 0>>, <<5152, 1025, 1072, 8192>>,
      <<132, 66, 1025, 8256>>>>

BISHOP_SHIFTS ==
    <<6, 5, 5, 5, 5, 5, 5, 6,
      5, 5, 5, 5, 5, 5, 5, 5,
      5, 5, 7, 7, 7, 7, 5, 5,
      5, 5, 7, 9, 9, 7, 5, 5,
      5, 5, 7, 9, 9, 7, 5, 5,
      5, 5, 7, 7, 7, 7, 5, 5,
      5, 5, 5, 5, 5, 5, 5, 5,
      6, 5, 5, 5, 5, 5, 5, 6>>

\* limb j (0 the lowest) of (magic << square) truncated to 64 bits
shl_limb(magic, square, j) ==
    LET q == square \div 16
        r == square % 16
        src == j - q
    IN (IF src >= 0 THEN (magic[src + 1] * (2 ^ r)) % 65536 ELSE 0)
       + (IF src >= 1 THEN magic[src] \div (2 ^ (16 - r)) ELSE 0)

\* the sum of limb j of (magic << square) over the squares of blockers
RECURSIVE sum_limb(_, _, _)
sum_limb(magic, blockers, j) ==
    IF blockers = {} THEN 0
    ELSE LET square == Min(blockers)
         IN shl_limb(magic, square, j) + sum_limb(magic, blockers \ {square}, j)

\* the highest 16 bits of magic.wrapping_mul(blockers): blockers is the sum of
\* 2^square over its squares, so the product is the sum of the magic shifted
\* left by each square, added limb by limb with carries, what is carried out
\* of the highest limb being dropped
wrapping_mul_high(magic, blockers) ==
    LET s0 == sum_limb(magic, blockers, 0)
        s1 == sum_limb(magic, blockers, 1) + s0 \div 65536
        s2 == sum_limb(magic, blockers, 2) + s1 \div 65536
        s3 == sum_limb(magic, blockers, 3) + s2 \div 65536
    IN s3 % 65536

\* magic_index keeping the lowest bits of the highest limb instead of the highest
magic_index_low_bits(magic, blockers, shift) ==
    wrapping_mul_high(magic, blockers) % (2 ^ shift)

\* magic_index: the shift highest bits of the wrapping product (shift <= 16)
magic_index(magic, blockers, shift) ==
    wrapping_mul_high(magic, blockers) \div (2 ^ (16 - shift))

\* generate_blocker_bitboards(mask)[pattern_index]: bit k of pattern_index puts
\* a blocker on the k-th lowest square of mask
blocker_bitboard(mask, pattern_index) ==
    {square \in mask :
        (pattern_index \div (2 ^ Cardinality({other \in mask : other < square}))) % 2 = 1}

\* the length of generate_blocker_bitboards(mask)
num_patterns(mask) == 2 ^ Cardinality(mask)

\* the sliders with an attack map, and for each its row length, masks, magics,
\* shifts and ray walk
ROOK_MAP_SIZE == 4096
BISHOP_MAP_SIZE == 512

map_size(slider) == IF slider = "rook" THEN ROOK_MAP_SIZE ELSE BISHOP_MAP_SIZE

slider_mask(slider, square) ==
    IF slider = "rook" THEN rook_mask(square) ELSE bishop_mask(square)

slider_magic(slider, square) ==
    IF slider = "rook" THEN ROOK_MAGICS[square + 1] ELSE BISHOP_MAGICS[square + 1]

slider_shift(slider, square) ==
    IF slider = "rook" THEN ROOK_SHIFTS[square + 1] ELSE BISHOP_SHIFTS[square + 1]

slider_attack_mask(slider, square, blockers) ==
    IF slider = "rook" THEN get_rook_attack_mask(square, blockers)
    ELSE get_bishop_attack_mask(square, blockers)

\* one pass of `for b in blockers` in the initialiser of ROOK_ATTACK_MAP /
\* BISHOP_ATTACK_MAP: row is map[square], b the pattern_index-th bitboard
store_attack(row, slider, square, pattern_index) ==
    LET b == blocker_bitboard(slider_mask(slider, square), pattern_index)
        key == magic_index(slider_magic(slider, square), b, slider_shift(slider, square))
    IN [row EXCEPT ![key] = slider_attack_mask(slider, square, b)]

\* get_rook_magic / get_bishop_magic reading the row of the square
magic_lookup(row, slider, square, blockers) ==
    row[magic_index(slider_magic(slider, square),
                    blockers \cap slider_mask(slider, square),
                    slider_shift(slider, square))]

\* the attack maps before the lazy initialiser has run
ATTACK_MAP_UNSET == [slider |-> "none", square |-> 0, pattern_index |-> 0, row |-> <<>>]

\* ------------------------------------------------------------------ zobrist
ZOBRIST_TURN == 768
ZOBRIST_CASTLING == 769

\* Piece::get_hash: the index of the key of a piece on a square
get_hash(p, square) == {square * 12 + get_piece_index(p)}

\* ------------------------------------------------------------------ repetition table
ENTRY_COUNT == 2048

\* The low bits of ZOBRIST_KEYS[i]; the keys come from a seeded external
\* generator, these stand-ins are distinct for the keys of one square.
KeyLow(i) == (i * 1237 + 411) % ENTRY_COUNT

\* hash % ENTRY_COUNT: ENTRY_COUNT is 2^11, so the slot is the XOR of the low
\* 11 bits of the keys in the hash: bit k of it is the parity of the number of
\* keys whose bit k is set
Slot(hash) ==
    LET bit(k) == Cardinality({i \in hash : (KeyLow(i) \div (2 ^ k)) % 2 = 1}) % 2
    IN bit(0) + 2 * bit(1) + 4 * bit(2) + 8 * bit(3) + 16 * bit(4) + 32 * bit(5)
       + 64 * bit(6) + 128 * bit(7) + 256 * bit(8) + 512 * bit(9) + 1024 * bit(10)

RepetitionEntry_new == [zobrist_hash |-> {}, repetitions |-> 0]

RepetitionTable_new == [key \in 0..(ENTRY_COUNT - 1) |-> RepetitionEntry_new]

\* increment_existing_repetition storing the hash in a slot that holds another
increment_existing_repetition_evicts(entries, hash) ==
    LET key == Slot(hash)
    IN IF entries[key].zobrist_hash = hash
       THEN <<[entries EXCEPT ![key].repetitions = (@ + 1) % 256], TRUE>>
       ELSE <<[entries EXCEPT ![key] = [zobrist_hash |-> hash, repetitions |-> 1]], TRUE>>

\* increment_repetition starting the count again at each call
increment_repetition_always_overwrites(entries, hash) ==
    <<[entries EXCEPT ![Slot(hash)] = [zobrist_hash |-> hash, repetitions |-> 1]], TRUE>>

\* each operation gives <<table, returned value>>
increment_existing_repetition(entries, hash) ==
    LET key == Slot(hash)
    IN IF entries[key].zobrist_hash = hash
       THEN <<[entries EXCEPT ![key].repetitions = (@ + 1) % 256], TRUE>>
       ELSE <<entries, FALSE>>

\* increment_repetition that never overwrites a slot
increment_repetition_only_existing(entries, hash) ==
    increment_existing_repetition(entries, hash)

increment_repetition(entries, hash) ==
    LET key == Slot(hash)
    IN IF entries[key].zobrist_hash = hash
       THEN <<[entries EXCEPT ![key].repetitions = (@ + 1) % 256], TRUE>>
       ELSE <<[entries EXCEPT ![key] = [zobrist_hash |-> hash, repetitions |-> 1]], TRUE>>

decrement_repetition(entries, hash) ==
    LET key == Slot(hash)
    IN IF entries[key].zobrist_hash = hash
       THEN <<[entries EXCEPT ![key].repetitions = (@ + 255) % 256], TRUE>>
       ELSE <<entries, FALSE>>

\* Option<u8>: <<>> is None, <<n>> is Some(n)
get_repetitions(entries, hash) ==
    LET key == Slot(hash)
    IN IF entries[key].zobrist_hash = hash THEN <<entries[key].repetitions>> ELSE <<>>

RepetitionTable_clear(entries) == [key \in DOMAIN entries |-> RepetitionEntry_new]

\* ------------------------------------------------------------------ board
\* A ChessBoard value b is the record of its fields:
\*   bitboards [0..11 -> bitboard], side_bitboards [0..1 -> bitboard],
\*   board [0..63 -> piece], turn, en_passant, castling_rights [0..3 -> BOOLEAN],
\*   half_move (u8), full_move (u16), zobrist_hash, repetitions, move_history.

get_piece(b, square) == b.board[square]

get_king_square(b, king_color) == bitscan_forward(b.bitboards[get_side_index(King, king_color)])

\* remove_from_bitboards leaving the side bitboard as it was
remove_from_bitboards_keeps_side(b, piece, square) ==
    [b EXCEPT !.bitboards[get_piece_index(piece)] = @ \ {square},
              !.zobrist_hash = Xor(@, get_hash(piece, square))]

remove_from_bitboards(b, piece, square) ==
    [b EXCEPT !.bitboards[get_piece_index(piece)] = @ \ {square},
              !.side_bitboards[get_color(piece)] = @ \ {square},
              !.zobrist_hash = Xor(@, get_hash(piece, square))]

add_to_bitboards(b, piece, square) ==
    [b EXCEPT !.bitboards[get_piece_index(piece)] = @ \cup {square},
              !.side_bitboards[get_color(piece)] = @ \cup {square},
              !.zobrist_hash = Xor(@, get_hash(piece, square))]

\* ChessBoard::set_piece: the board afterwards; the piece returned is the
\* piece that stood on the square before, get_piece(b, square)
set_piece(b, square, piece) ==
    LET captured == b.board[square]
        b1 == IF ~is_none(captured) THEN remove_from_bitboards(b, captured, square) ELSE b
        b2 == [b1 EXCEPT !.board[square] = piece]
    IN IF ~is_none(piece) THEN add_to_bitboards(b2, piece, square) ELSE b2

ReversibleMove_new(board_move, captured, en_passant_square, castling, half_move, zobrist_hash, repetition_saved) ==
    [board_move |-> board_move, captured |-> captured, en_passant_square |-> en_passant_square,
     castling |-> castling, half_move |-> half_move, zobrist_hash |-> zobrist_hash,
     repetition_saved |-> repetition_saved]

\* save_repetition storing the position in search as it does out of search
save_repetition_always_stores(b, is_in_search) ==
    increment_repetition(b.repetitions, b.zobrist_hash)

\* the "Save to history" step of make_move
save_repetition(b, is_in_search) ==
    IF is_in_search THEN increment_existing_repetition(b.repetitions, b.zobrist_hash)
    ELSE increment_repetition(b.repetitions, b.zobrist_hash)

\* MoveFlag::EnPassant arm of make_move, b being the board after the turn flip
make_move_en_passant(b, chess_move, moving_piece, en_passant_hold, is_in_search) ==
    LET from == get_from_idx(chess_move)
        to == get_to_idx(chess_move)
        en_passant_dir == IF get_color(moving_piece) = Black THEN 8 ELSE -8
        b1 == set_piece(b, from, None)
        b2 == set_piece(b1, to, moving_piece)
        captured == get_piece(b2, to + en_passant_dir)
        b3 == set_piece(b2, to + en_passant_dir, None)
        rep == save_repetition(b3, is_in_search)
        reversible == ReversibleMove_new(chess_move, captured, en_passant_hold, b3.castling_rights,
                                         b3.half_move, b3.zobrist_hash, rep[2])
    IN [b3 EXCEPT !.repetitions = rep[1],
                  !.move_history = Append(@, reversible),
                  !.half_move = 0]

\* MoveFlag::Castle arm of make_move: the rook jumps over the king
make_move_castle_rook(b, to) ==
    CASE to = G1 -> set_piece(set_piece(b, H1, None), F1, get_piece(b, H1))
      [] to = C1 -> set_piece(set_piece(b, A1, None), D1, get_piece(b, A1))
      [] to = G8 -> set_piece(set_piece(b, H8, None), F8, get_piece(b, H8))
      [] to = C8 -> set_piece(set_piece(b, A8, None), D8, get_piece(b, A8))
      [] OTHER -> b

\* clears castling right i once, taking its key out of the hash
disable_castling_right(b, i) ==
    IF b.castling_rights[i]
    THEN [b EXCEPT !.castling_rights[i] = FALSE,
                   !.zobrist_hash = Xor(@, {ZOBRIST_CASTLING + i})]
    ELSE b

\* "Disable castling rights" step of make_move
disable_castling_rights(b, moving_piece, from) ==
    CASE get_piece_type(moving_piece) = King ->
            IF get_color(moving_piece) = White
            THEN disable_castling_right(disable_castling_right(b, 0), 1)
            ELSE disable_castling_right(disable_castling_right(b, 2), 3)
      [] get_piece_type(moving_piece) = Rook ->
            CASE from = H1 -> disable_castling_right(b, 0)
              [] from = A1 -> disable_castling_right(b, 1)
              [] from = H8 -> disable_castling_right(b, 2)
              [] from = A8 -> disable_castling_right(b, 3)
              [] OTHER -> b
      [] OTHER -> b

\* "Half move" step of make_move
update_half_move(b, captured, moving_piece, is_in_search) ==
    IF ~is_none(captured) \/ get_piece_type(moving_piece) = Pawn
    THEN [b EXCEPT !.repetitions = IF ~is_in_search THEN RepetitionTable_clear(@) ELSE @,
                   !.half_move = 0]
    ELSE [b EXCEPT !.half_move = (@ + 1) % 256]

\* make_move_pawn_two_up with the direction of the en passant arm
make_move_pawn_two_up_backwards(b, from, moving_piece) ==
    [b EXCEPT !.en_passant = from + (IF get_color(moving_piece) = Black THEN 8 ELSE -8)]

\* MoveFlag::PawnTwoUp arm of make_move: the target is the square passed over
make_move_pawn_two_up(b, from, moving_piece) ==
    [b EXCEPT !.en_passant = from + (IF get_color(moving_piece) = White THEN 8 ELSE -8)]

make_move(b, chess_move, is_in_search) ==
    LET from == get_from_idx(chess_move)
        to == get_to_idx(chess_move)
        piece == get_piece(b, from)
        flag == get_flag(chess_move)
        en_passant_hold == b.en_passant
        zobrist_hold == b.zobrist_hash
        castling_hold == b.castling_rights
        half_move_hold == b.half_move
        b1 == [b EXCEPT !.en_passant = -1,
                        !.full_move = (@ + b.turn) % 65536,
                        !.turn = flipped(@),
                        !.zobrist_hash = Xor(@, {ZOBRIST_TURN})]
    IN IF is_none(piece) THEN b
       ELSE IF flag = EnPassant
       THEN make_move_en_passant(b1, chess_move, piece, en_passant_hold, is_in_search)
       ELSE
        LET b2 == CASE flag = PawnTwoUp -> make_move_pawn_two_up(b1, from, piece)
                    [] flag = Castle -> make_move_castle_rook(b1, to)
                    [] OTHER -> b1
            moving_piece == CASE flag = PromoteQueen -> set_piece_type(piece, Queen)
                              [] flag = PromoteRook -> set_piece_type(piece, Rook)
                              [] flag = PromoteBishop -> set_piece_type(piece, Bishop)
                              [] flag = PromoteKnight -> set_piece_type(piece, Knight)
                              [] OTHER -> piece
            b3 == set_piece(b2, from, None)
            captured == get_piece(b3, to)
            b4 == set_piece(b3, to, moving_piece)
            b5 == update_half_move(b4, captured, moving_piece, is_in_search)
            b6 == disable_castling_rights(b5, moving_piece, from)
            rep == save_repetition(b6, is_in_search)
            reversible == ReversibleMove_new(chess_move, captured, en_passant_hold, castling_hold,
                                             half_move_hold, zobrist_hold, rep[2])
        IN [b6 EXCEPT !.repetitions = rep[1],
                      !.move_history = Append(@, reversible)]

\* unmake_move_castle_rook leaving the rook where castling put it
unmake_move_castle_rook_stays(b, to) == b

\* MoveFlag::Castle arm of unmake_move: the rook goes back to its corner
unmake_move_castle_rook(b, to) ==
    CASE to = G1 -> set_piece(set_piece(b, F1, None), H1, get_piece(b, F1))
      [] to = C1 -> set_piece(set_piece(b, D1, None), A1, get_piece(b, D1))
      [] to = G8 -> set_piece(set_piece(b, F8, None), H8, get_piece(b, F8))
      [] to = C8 -> set_piece(set_piece(b, D8, None), A8, get_piece(b, D8))
      [] OTHER -> b

unmake_move(b) ==
    IF b.move_history = <<>> THEN b
    ELSE
     LET move_made == b.move_history[Len(b.move_history)]
         b0 == [b EXCEPT !.move_history = SubSeq(@, 1, Len(@) - 1)]
         b1 == IF move_made.repetition_saved
               THEN [b0 EXCEPT !.repetitions = decrement_repetition(@, b0.zobrist_hash)[1]]
               ELSE b0
         to == get_to_idx(move_made.board_move)
         from == get_from_idx(move_made.board_move)
         flag == get_flag(move_made.board_move)
         piece == get_piece(b1, to)
         b2 == set_piece(b1, to, move_made.captured)
         b3 == CASE flag = EnPassant ->
                     LET en_passant_dir == IF get_color(piece) = Black THEN 8 ELSE -8
                         captured_square == to + en_passant_dir
                     IN set_piece(set_piece(b2, to, None), captured_square, move_made.captured)
                 [] flag = Castle -> unmake_move_castle_rook(b2, to)
                 [] OTHER -> b2
         moving_piece == IF flag \in {PromoteQueen, PromoteRook, PromoteBishop, PromoteKnight}
                         THEN set_piece_type(piece, Pawn) ELSE piece
         b4 == set_piece(b3, from, moving_piece)
         b5 == [b4 EXCEPT !.en_passant = move_made.en_passant_square,
                          !.castling_rights = move_made.castling,
                          !.half_move = move_made.half_move,
                          !.turn = flipped(@),
                          !.zobrist_hash = move_made.zobrist_hash]
     IN IF b5.turn = Black THEN [b5 EXCEPT !.full_move = (@ + 65535) % 65536] ELSE b5

\* is_draw looking at the half-move counter only
is_draw_fifty_moves_only(b) == b.half_move = 100

\* ChessBoard::is_draw
is_draw(b) ==
    IF b.half_move = 100 THEN TRUE
    ELSE LET reps == get_repetitions(b.repetitions, b.zobrist_hash)
         IN reps # <<>> /\ reps[1] >= 3

\* ChessBoard::create_zobrist_hash
create_zobrist_hash(b) ==
    LET pieces == b.side_bitboards[White] \cup b.side_bitboards[Black]
    IN Xor(Xor({square * 12 + get_piece_index(get_piece(b, square)) : square \in pieces},
               {ZOBRIST_CASTLING + i : i \in {j \in 0..3 : b.castling_rights[j]}}),
           IF b.turn = Black THEN {ZOBRIST_TURN} ELSE {})

\* ------------------------------------------------------------------ move generation
UnionOf(f, S) == UNION {f[x] : x \in S}

is_square_in_check(b, king_color, square) ==
    LET enemy_bitboard_idx == IF king_color = White THEN 6 ELSE 0
        all_pieces == b.side_bitboards[0] \cup b.side_bitboards[1]
        pawn_checks == PAWN_ATTACKS[king_color][square] \cap b.bitboards[enemy_bitboard_idx]
        knight_checks == KNIGHT_ATTACKS[square] \cap b.bitboards[enemy_bitboard_idx + 1]
        king_checks == KING_ATTACKS[square] \cap b.bitboards[enemy_bitboard_idx + 5]
        bishop_checks == get_bishop_magic(square, all_pieces)
                         \cap (b.bitboards[enemy_bitboard_idx + 2] \cup b.bitboards[enemy_bitboard_idx + 4])
        rook_checks == get_rook_magic(square, all_pieces)
                       \cap (b.bitboards[enemy_bitboard_idx + 3] \cup b.bitboards[enemy_bitboard_idx + 4])
    IN (pawn_checks \cup knight_checks \cup bishop_checks \cup rook_checks \cup king_checks) # {}

is_king_in_check(b, king_color) == is_square_in_check(b, king_color, get_king_square(b, king_color))

get_attack_mask(b) ==
    LET king_mask == b.bitboards[b.turn * 6 + 5]
        enemy_color == flipped(b.turn)
        all_pieces == Xor(b.side_bitboards[0] \cup b.side_bitboards[1], king_mask)
        pawns == b.bitboards[get_side_index(Pawn, enemy_color)]
        knights == b.bitboards[get_side_index(Knight, enemy_color)]
        bishops == b.bitboards[get_side_index(Bishop, enemy_color)] \cup b.bitboards[get_side_index(Queen, enemy_color)]
        rooks == b.bitboards[get_side_index(Rook, enemy_color)] \cup b.bitboards[get_side_index(Queen, enemy_color)]
    IN UnionOf(PAWN_ATTACKS[enemy_color], pawns)
       \cup UnionOf(KNIGHT_ATTACKS, knights)
       \cup UNION {get_bishop_magic(sq, all_pieces) : sq \in bishops}
       \cup UNION {get_rook_magic(sq, all_pieces) : sq \in rooks}
       \cup KING_ATTACKS[get_king_square(b, enemy_color)]

xray_rook_attacks(occupied, blockers, rook_square) ==
    LET attacks == get_rook_magic(rook_square, blockers)
        blockers2 == blockers \cap attacks
    IN Xor(attacks, get_rook_magic(rook_square, Xor(occupied, blockers2)))

xray_bishop_attacks(occupied, blockers, bishop_square) ==
    LET attacks == get_bishop_magic(bishop_square, blockers)
        blockers2 == blockers \cap attacks
    IN Xor(attacks, get_bishop_magic(bishop_square, Xor(occupied, blockers2)))

\* <<HorizontalVertical, Diagonal>>
get_pinned_mask(b) ==
    LET opponent == flipped(b.turn)
        current_turn == b.turn
        opp_bq == b.bitboards[get_side_index(Bishop, opponent)] \cup b.bitboards[get_side_index(Queen, opponent)]
        opp_rq == b.bitboards[get_side_index(Rook, opponent)] \cup b.bitboards[get_side_index(Queen, opponent)]
        king_square == get_king_square(b, current_turn)
        occupied == b.side_bitboards[0] \cup b.side_bitboards[1]
        own_pieces == b.side_bitboards[current_turn]
        pinner_bq == xray_bishop_attacks(occupied, own_pieces, king_square) \cap opp_bq
        pinner_rq == xray_rook_attacks(occupied, own_pieces, king_square) \cap opp_rq
        bishop_pins == UNION {BETWEENS[square][king_square] \cup {square} : square \in pinner_bq}
        rook_pins == UNION {BETWEENS[square][king_square] \cup {square} : square \in pinner_rq}
    IN <<rook_pins, bishop_pins>>

\* <<double_check, check_mask>>; every loop of the function sets
\* is_double_check = is_checked at each checker it finds, so that it ends
\* true iff the loops found two checkers or more
get_check_mask(b) ==
    LET opponent == flipped(b.turn)
        side_king == b.turn
        king_mask == b.bitboards[side_king * 6 + 5]
        king_square == get_king_square(b, b.turn)
        blockers == b.side_bitboards[0] \cup b.side_bitboards[1]
        pawns == {sq \in b.bitboards[get_side_index(Pawn, opponent)] :
                    (PAWN_ATTACKS[opponent][sq] \cap king_mask) # {}}
        knights == {sq \in b.bitboards[get_side_index(Knight, opponent)] :
                    (KNIGHT_ATTACKS[sq] \cap king_mask) # {}}
        bishops == {sq \in b.bitboards[get_side_index(Bishop, opponent)] \cup b.bitboards[get_side_index(Queen, opponent)] :
                    (get_bishop_magic(sq, blockers) \cap king_mask) # {}}
        rooks == {sq \in b.bitboards[get_side_index(Rook, opponent)] \cup b.bitboards[get_side_index(Queen, opponent)] :
                    (get_rook_magic(sq, blockers) \cap king_mask) # {}}
        check_mask == pawns \cup knights
                      \cup UNION {(get_bishop_magic(sq, blockers) \cap get_bishop_magic(king_square, blockers)) \cup {sq} : sq \in bishops}
                      \cup UNION {(get_rook_magic(sq, blockers) \cap get_rook_magic(king_square, blockers)) \cup {sq} : sq \in rooks}
        checkers == Cardinality(pawns) + Cardinality(knights) + Cardinality(bishops) + Cardinality(rooks)
    IN <<checkers >= 2, check_mask>>

\* MoveGenerator::generate_moves
generate_moves(from, move_mask) == {NewMove(from, square_to, FlagNone) : square_to \in move_mask}

\* generate_moves_promotion emitting the four promotions whatever is asked for
generate_moves_promotion_all_pieces(from, move_mask, is_quiet) ==
    {NewMove(from, square_to, flag) :
        square_to \in move_mask, flag \in {PromoteKnight, PromoteBishop, PromoteRook, PromoteQueen}}

\* MoveGenerator::generate_moves_promotion
generate_moves_promotion(from, move_mask, is_quiet) ==
    {NewMove(from, square_to, PromoteQueen) : square_to \in move_mask}
    \cup (IF is_quiet
          THEN {NewMove(from, square_to, flag) :
                    square_to \in move_mask, flag \in {PromoteKnight, PromoteBishop, PromoteRook}}
          ELSE {})

\* the masks get_legal_moves computes before it generates moves
legal_moves_masks(b, generate_quiet) ==
    LET color_idx == b.turn
        enemy_bitboard_idx == flipped(b.turn)
        attack_mask == get_attack_mask(b)
        friendly_pieces == b.side_bitboards[color_idx]
        enemy_pieces == b.side_bitboards[enemy_bitboard_idx]
        pins == get_pinned_mask(b)
        king_square == get_king_square(b, b.turn)
        in_check == (attack_mask \cap {king_square}) # {}
        check == IF in_check THEN get_check_mask(b) ELSE <<FALSE, ALL>>
    IN [color_idx |-> color_idx,
        attack_mask |-> attack_mask,
        friendly_pieces |-> friendly_pieces,
        enemy_pieces |-> enemy_pieces,
        all_pieces |-> friendly_pieces \cup enemy_pieces,
        enemy_or_empty |-> Xor(ALL, friendly_pieces),
        move_filter_mask |-> IF generate_quiet THEN ALL ELSE enemy_pieces,
        pin_hv |-> pins[1],
        pin_d12 |-> pins[2],
        pin_mask |-> pins[1] \cup pins[2],
        king_square |-> king_square,
        in_check |-> in_check,
        double_check |-> check[1],
        check_mask |-> check[2]]

\* "King"
legal_moves_king(b, c) ==
    generate_moves(c.king_square,
                   ((KING_ATTACKS[c.king_square] \ c.attack_mask) \ c.friendly_pieces) \cap c.move_filter_mask)

\* legal_moves_castling asking that the b file square is not attacked either
legal_moves_castling_b_file_safe(b, c) ==
    LET rights_idx == c.color_idx * 2
        rooks == b.bitboards[get_side_index(Rook, b.turn)]
        square_for_black == c.color_idx * 56
        king_rook == IF c.color_idx = 0 THEN {H1} ELSE {H8}
        king_empty == IF c.color_idx = 0 THEN {F1, G1} ELSE {F8, G8}
        queen_rook == IF c.color_idx = 0 THEN {A1} ELSE {A8}
        queen_empty == IF c.color_idx = 0 THEN {1, 2, 3} ELSE {57, 58, 59}
        queen_non_attacked == IF c.color_idx = 0 THEN {1, 2, 3} ELSE {57, 58, 59}
    IN (IF /\ b.castling_rights[rights_idx]
           /\ (c.all_pieces \cap king_empty) = {}
           /\ ~((c.attack_mask \cap king_empty) # {})
           /\ (rooks \cap king_rook) # {}
        THEN {NewMove(E1 + square_for_black, G1 + square_for_black, Castle)} ELSE {})
       \cup
       (IF /\ b.castling_rights[rights_idx + 1]
           /\ (c.all_pieces \cap queen_empty) = {}
           /\ ~((c.attack_mask \cap queen_non_attacked) # {})
           /\ (rooks \cap queen_rook) # {}
        THEN {NewMove(E1 + square_for_black, C1 + square_for_black, Castle)} ELSE {})

\* "Castling": taken when the king is not attacked and quiet moves are asked for
legal_moves_castling(b, c) ==
    LET rights_idx == c.color_idx * 2
        rooks == b.bitboards[get_side_index(Rook, b.turn)]
        square_for_black == c.color_idx * 56
        king_rook == IF c.color_idx = 0 THEN {H1} ELSE {H8}
        king_empty == IF c.color_idx = 0 THEN {F1, G1} ELSE {F8, G8}
        queen_rook == IF c.color_idx = 0 THEN {A1} ELSE {A8}
        queen_empty == IF c.color_idx = 0 THEN {1, 2, 3} ELSE {57, 58, 59}
        queen_non_attacked == IF c.color_idx = 0 THEN {2, 3} ELSE {58, 59}
    IN (IF /\ b.castling_rights[rights_idx]
           /\ (c.all_pieces \cap king_empty) = {}
           /\ ~((c.attack_mask \cap king_empty) # {})
           /\ (rooks \cap king_rook) # {}
        THEN {NewMove(E1 + square_for_black, G1 + square_for_black, Castle)} ELSE {})
       \cup
       (IF /\ b.castling_rights[rights_idx + 1]
           /\ (c.all_pieces \cap queen_empty) = {}
           /\ ~((c.attack_mask \cap queen_non_attacked) # {})
           /\ (rooks \cap queen_rook) # {}
        THEN {NewMove(E1 + square_for_black, C1 + square_for_black, Castle)} ELSE {})

\* "Knights"
legal_moves_knights(b, c) ==
    UNION {generate_moves(knight_square,
                          KNIGHT_ATTACKS[knight_square] \cap c.enemy_or_empty \cap c.check_mask \cap c.move_filter_mask) :
           knight_square \in b.bitboards[get_side_index(Knight, b.turn)] \ c.pin_mask}

\* "Bishop": bishops and queens along the diagonals
legal_moves_bishops(b, c) ==
    UNION {LET bishop_attacks == get_bishop_magic(bishop_square, c.all_pieces)
                                 \cap c.enemy_or_empty \cap c.check_mask \cap c.move_filter_mask
           IN IF bishop_square \in c.pin_mask
              THEN (IF bishop_square \notin c.pin_hv
                    THEN generate_moves(bishop_square, bishop_attacks \cap c.pin_d12) ELSE {})
              ELSE generate_moves(bishop_square, bishop_attacks) :
           bishop_square \in b.bitboards[get_side_index(Bishop, b.turn)] \cup b.bitboards[get_side_index(Queen, b.turn)]}

\* "Rook": rooks and queens along ranks and files
legal_moves_rooks(b, c) ==
    UNION {LET rook_attacks == get_rook_magic(rook_square, c.all_pieces)
                               \cap c.enemy_or_empty \cap c.check_mask \cap c.move_filter_mask
           IN IF rook_square \in c.pin_mask
              THEN (IF rook_square \notin c.pin_d12
                    THEN generate_moves(rook_square, rook_attacks \cap c.pin_hv) ELSE {})
              ELSE generate_moves(rook_square, rook_attacks) :
           rook_square \in b.bitboards[get_side_index(Rook, b.turn)] \cup b.bitboards[get_side_index(Queen, b.turn)]}

\* "En Passant" of one pawn
legal_moves_en_passant(b, c, pawn_square) ==
    IF b.en_passant # -1 /\ pawn_square \notin c.pin_mask
    THEN LET en_passant_square_mask == Bit(b.en_passant)
             pawn_moved_mask == IF c.color_idx = 0 THEN Shr(en_passant_square_mask, 8)
                                ELSE Shl(en_passant_square_mask, 8)
             pawn_moved_diag_pinned == (pawn_moved_mask \cap c.pin_d12) # {}
             en_passant_on_attack == (PAWN_ATTACKS[c.color_idx][pawn_square] \cap en_passant_square_mask) # {}
         IN IF en_passant_on_attack /\ ~pawn_moved_diag_pinned
            THEN IF get_rank(pawn_square) = get_rank(c.king_square)
                 THEN LET opp_rq == b.bitboards[get_side_index(Rook, flipped(b.turn))]
                                    \cup b.bitboards[get_side_index(Queen, flipped(b.turn))]
                          two_pawn_mask == pawn_moved_mask \cup {pawn_square}
                          blockers == Xor(c.all_pieces, two_pawn_mask)
                          rook_attacks == get_rook_magic(c.king_square, blockers)
                      IN IF (rook_attacks \cap opp_rq) = {}
                         THEN {NewMove(pawn_square, b.en_passant, EnPassant)} ELSE {}
                 ELSE IF (c.check_mask \cap pawn_moved_mask) = pawn_moved_mask
                      THEN {NewMove(pawn_square, b.en_passant, EnPassant)} ELSE {}
            ELSE {}
    ELSE {}

\* "Pawns": the body of the loop for one pawn
legal_moves_pawn(b, c, generate_quiet, pawn_square) ==
    LET current_rank == get_rank(pawn_square)
        attack == IF pawn_square \notin c.pin_mask
                  THEN PAWN_ATTACKS[c.color_idx][pawn_square] \cap c.enemy_pieces \cap c.check_mask
                  ELSE IF pawn_square \in c.pin_d12 /\ pawn_square \notin c.pin_hv
                  THEN PAWN_ATTACKS[c.color_idx][pawn_square] \cap c.enemy_pieces \cap c.check_mask \cap c.pin_d12
                  ELSE {}
        move_dir == IF b.turn = White THEN 8 ELSE -8
        move_mask == Bit(pawn_square + move_dir)
        pin_allowed_to_move == /\ (pawn_square \notin c.pin_hv \/ (move_mask \cap c.pin_hv) # {})
                               /\ (pawn_square \notin c.pin_d12 \/ (move_mask \cap c.pin_d12) # {})
        can_advance == generate_quiet /\ (c.all_pieces \cap move_mask) = {} /\ pin_allowed_to_move
        advance == IF can_advance THEN move_mask \cap c.check_mask ELSE {}
        on_start_rank == (IF b.turn = White THEN 1 ELSE 6) = current_rank
        advance_mask == Bit(pawn_square + move_dir * 2)
        not_blocked == (c.all_pieces \cap advance_mask) = {}
        two_up == IF can_advance /\ on_start_rank /\ not_blocked /\ (advance_mask \cap c.check_mask) # {}
                  THEN {NewMove(pawn_square, pawn_square + move_dir * 2, PawnTwoUp)} ELSE {}
        promotable_moves == attack \cup advance
        promotion_rank == IF b.turn = White THEN 6 ELSE 1
    IN two_up
       \cup (IF promotion_rank = current_rank
             THEN generate_moves_promotion(pawn_square, promotable_moves, generate_quiet)
             ELSE generate_moves(pawn_square, promotable_moves))
       \cup legal_moves_en_passant(b, c, pawn_square)

\* the moves get_legal_moves pushes, piece kind by piece kind, once c holds
\* the masks it has computed
legal_moves_pieces(b, c, generate_quiet) ==
    legal_moves_king(b, c)
       \cup (IF c.in_check /\ c.double_check THEN {}
             ELSE (IF ~c.in_check /\ generate_quiet THEN legal_moves_castling(b, c) ELSE {})
                  \cup legal_moves_knights(b, c)
                  \cup legal_moves_bishops(b, c)
                  \cup legal_moves_rooks(b, c)
                  \cup UNION {legal_moves_pawn(b, c, generate_quiet, pawn_square) :
                              pawn_square \in b.bitboards[get_side_index(Pawn, b.turn)]})

\* MoveGenerator::get_legal_moves; the Vec<Move> it returns is modelled as the
\* set of its elements
get_legal_moves(b, generate_quiet) ==
    legal_moves_pieces(b, legal_moves_masks(b, generate_quiet), generate_quiet)

get_legal_moves_for_square(b, square) ==
    {m \in get_legal_moves(b, TRUE) : get_from_idx(m) = square}

\* ------------------------------------------------------------------ perft
\* ChessBoard::perft: <<board afterwards, positions>>. perft_loop is its loop
\* over the moves still to try, b the board the loop has got to and positions
\* the count so far; the moves are tried in increasing order of their encoding
\* (the vector's order is not modelled, and the count does not depend on it).
\* The test in perft_loop only makes TLC evaluate the board and the count of
\* this iteration before the next one; unmake_move always gives the turn back.
RECURSIVE perft(_, _), perft_loop(_, _, _, _)
perft(b, depth) ==
    IF depth = 0 THEN <<b, 1>>
    ELSE perft_loop(b, depth, get_legal_moves(b, TRUE), 0)

perft_loop(b, depth, moves, positions) ==
    IF moves = {} THEN <<b, positions>>
    ELSE LET m == Min(moves)
             move_perft == perft(make_move(b, m, TRUE), depth - 1)
             unmade == unmake_move(move_perft[1])
             positions1 == positions + move_perft[2]
         IN IF unmade.turn = b.turn /\ positions1 = positions1
            THEN perft_loop(unmade, depth, moves \ {m}, positions1)
            ELSE <<unmade, positions1>>

\* ------------------------------------------------------------------ FEN
\* A FEN string is a sequence of characters; parse_fen is given the sequence of
\* its space-separated fields (split), each field a sequence of characters.
PieceType_from_char(ch) ==
    CASE ch \in {"p", "P"} -> Pawn
      [] ch \in {"n", "N"} -> Knight
      [] ch \in {"b", "B"} -> Bishop
      [] ch \in {"r", "R"} -> Rook
      [] ch \in {"q", "Q"} -> Queen
      [] ch \in {"k", "K"} -> King
      [] OTHER -> None

is_ascii_uppercase(ch) == ch \in {"A", "B", "C", "D", "E", "F", "G", "H", "K", "N", "P", "Q", "R"}

Piece_from_char(ch) == PieceType_from_char(ch) + (IF ~is_ascii_uppercase(ch) THEN 128 ELSE 0)

is_ascii_digit(ch) == ch \in {"0", "1", "2", "3", "4", "5", "6", "7", "8", "9"}

to_digit(ch) ==
    CASE ch = "0" -> 0 [] ch = "1" -> 1 [] ch = "2" -> 2 [] ch = "3" -> 3 [] ch = "4" -> 4
      [] ch = "5" -> 5 [] ch = "6" -> 6 [] ch = "7" -> 7 [] ch = "8" -> 8 [] ch = "9" -> 9

file_to_idx(file) ==
    CASE file \in {"a", "A"} -> 0 [] file \in {"b", "B"} -> 1 [] file \in {"c", "C"} -> 2
      [] file \in {"d", "D"} -> 3 [] file \in {"e", "E"} -> 4 [] file \in {"f", "F"} -> 5
      [] file \in {"g", "G"} -> 6 [] file \in {"h", "H"} -> 7 [] OTHER -> -1

rank_to_idx(rank) ==
    IF is_ascii_digit(rank) /\ to_digit(rank) >= 1 /\ to_digit(rank) <= 8 THEN to_digit(rank) - 1 ELSE -1

file_rank_to_idx(file, rank) ==
    IF file < 0 \/ file > 7 \/ rank < 0 \/ rank > 7 THEN -1 ELSE rank * 8 + file

text_to_square(uci_cmd) ==
    IF Len(uci_cmd) < 2 THEN -1
    ELSE file_rank_to_idx(file_to_idx(uci_cmd[1]), rank_to_idx(uci_cmd[2]))

\* the "Parse Position" loop of parse_fen from character i on: x and y are the
\* file and rank the next piece goes to. (b1 = b1 only makes TLC evaluate the
\* board of this iteration before the next one starts, as the loop does; left
\* deferred, the evaluation nests as deep as the placement is long.)
RECURSIVE parse_position(_, _, _, _, _)
parse_position(b, fen_position, i, x, y) ==
    IF i > Len(fen_position) THEN b
    ELSE LET ch == fen_position[i]
             b1 == IF ~is_ascii_digit(ch) /\ ch # "/"
                   THEN set_piece(b, y * 8 + x, Piece_from_char(ch)) ELSE b
             x1 == IF is_ascii_digit(ch) THEN x + to_digit(ch)
                   ELSE IF ch # "/" THEN x + 1 ELSE x
         IN IF b1 = b1 /\ x1 >= 8 THEN parse_position(b1, fen_position, i + 1, 0, y - 1)
            ELSE parse_position(b1, fen_position, i + 1, x1, y)

\* ChessBoard::clear; the castling rights are left as they are
clear(b) ==
    [b EXCEPT !.bitboards = [i \in 0..11 |-> {}],
              !.side_bitboards = [i \in 0..1 |-> {}],
              !.board = [sq \in ALL |-> None],
              !.turn = White,
              !.move_history = <<>>,
              !.repetitions = RepetitionTable_clear(@),
              !.en_passant = -1,
              !.full_move = 1,
              !.half_move = 0,
              !.zobrist_hash = {}]

\* ChessBoard::new
ChessBoard_new ==
    [bitboards |-> [i \in 0..11 |-> {}],
     side_bitboards |-> [i \in 0..1 |-> {}],
     board |-> [sq \in ALL |-> None],
     turn |-> White,
     en_passant |-> -1,
     castling_rights |-> [i \in 0..3 |-> TRUE],
     half_move |-> 0,
     full_move |-> 1,
     zobrist_hash |-> {},
     repetitions |-> RepetitionTable_new,
     move_history |-> <<>>]

\* the value of a decimal digit string read from its character i on, acc being
\* the value of the characters before it
RECURSIVE parse_digits(_, _, _)
parse_digits(str, i, acc) ==
    IF i > Len(str) THEN acc ELSE parse_digits(str, i + 1, acc * 10 + to_digit(str[i]))

\* str.parse::<u8>() and str.parse::<u16>(), max being the largest value of the
\* type: <<n>> is Ok(n), <<>> is Err (no digits, another character, overflow)
parse_int(str, max) ==
    IF Len(str) = 0 \/ \E k \in 1..Len(str) : ~is_ascii_digit(str[k]) THEN <<>>
    ELSE IF parse_digits(str, 1, 0) > max THEN <<>>
    ELSE <<parse_digits(str, 1, 0)>>

\* the fields of parse_fen after the position; b is the board so far
parse_fen_fields(b, args) ==
    LET b2 == IF Len(args) >= 2
              THEN (IF args[2] = <<"w">> THEN [b EXCEPT !.turn = White]
                    ELSE IF args[2] = <<"b">> THEN [b EXCEPT !.turn = Black] ELSE b)
              ELSE b
        contains(str, ch) == \E k \in 1..Len(str) : str[k] = ch
        b3 == IF Len(args) >= 3
              THEN [b2 EXCEPT !.castling_rights = [i \in 0..3 |->
                        contains(args[3], <<"K", "Q", "k", "q">>[i + 1])]]
              ELSE b2
        b4 == IF Len(args) >= 4 /\ args[4] # <<"-">>
              THEN [b3 EXCEPT !.en_passant = text_to_square(args[4])]
              ELSE b3
        half == IF Len(args) >= 5 THEN parse_int(args[5], 255) ELSE <<>>
        full == IF Len(args) >= 6 THEN parse_int(args[6], 65535) ELSE <<>>
        b5 == IF half # <<>> THEN [b4 EXCEPT !.half_move = half[1]] ELSE b4
    IN IF full # <<>> THEN [b5 EXCEPT !.full_move = full[1]] ELSE b5

\* parse_fen testing the king of the side to move
parse_fen_checks_mover(b, fen_whole) ==
    LET b0 == clear(b)
        b1 == IF Len(fen_whole) >= 1 THEN parse_position(b0, fen_whole[1], 1, 0, 7) ELSE b0
        b6 == parse_fen_fields(b1, fen_whole)
        hash == create_zobrist_hash(b6)
    IN IF b6.bitboards[get_side_index(King, White)] = {} THEN <<clear(b6), "NoWhiteKing">>
       ELSE IF b6.bitboards[get_side_index(King, Black)] = {} THEN <<clear(b6), "NoBlackKing">>
       ELSE IF is_king_in_check(b6, b6.turn) THEN <<clear(b6), "OpponentInCheck">>
       ELSE <<[b6 EXCEPT !.repetitions = increment_repetition(@, hash)[1],
                         !.zobrist_hash = hash], "Ok">>

\* ChessBoard::parse_fen: <<board, result>>
parse_fen(b, fen_whole) ==
    LET b0 == clear(b)
        b1 == IF Len(fen_whole) >= 1 THEN parse_position(b0, fen_whole[1], 1, 0, 7) ELSE b0
        b6 == parse_fen_fields(b1, fen_whole)
        hash == create_zobrist_hash(b6)
    IN IF b6.bitboards[get_side_index(King, White)] = {} THEN <<clear(b6), "NoWhiteKing">>
       ELSE IF b6.bitboards[get_side_index(King, Black)] = {} THEN <<clear(b6), "NoBlackKing">>
       ELSE IF is_king_in_check(b6, flipped(b6.turn)) THEN <<clear(b6), "OpponentInCheck">>
       ELSE <<[b6 EXCEPT !.repetitions = increment_repetition(@, hash)[1],
                         !.zobrist_hash = hash], "Ok">>

\* fen_whole.split(' '): the fields of the text from character i on, field
\* being the characters of the field read so far. (As in parse_position, the
\* test of a value against itself only makes TLC evaluate it at this step.)
RECURSIVE split(_, _, _, _)
split(text, i, field, fields) ==
    IF i > Len(text) THEN Append(fields, field)
    ELSE LET field1 == IF text[i] = " " THEN <<>> ELSE Append(field, text[i])
             fields1 == IF text[i] = " " THEN Append(fields, field) ELSE fields
         IN IF field1 = field1 /\ fields1 = fields1 THEN split(text, i + 1, field1, fields1)
            ELSE fields1

\* ------------------------------------------------------------------ checked makes
\* BoardHelper::square_to_chars: the file and rank characters of a square
square_to_chars(square) ==
    IF square = -1 THEN <<"-", "-">>
    ELSE <<(<<"a", "b", "c", "d", "e", "f", "g", "h">>)[get_file(square) + 1],
           (<<"1", "2", "3", "4", "5", "6", "7", "8">>)[get_rank(square) + 1]>>

\* Move::to_uci
to_uci(m) ==
    square_to_chars(get_from_idx(m)) \o square_to_chars(get_to_idx(m))
    \o (CASE get_flag(m) = PromoteQueen -> <<"q">>
          [] get_flag(m) = PromoteRook -> <<"r">>
          [] get_flag(m) = PromoteBishop -> <<"b">>
          [] get_flag(m) = PromoteKnight -> <<"n">>
          [] OTHER -> <<>>)

\* ChessBoard::make_move_checked: <<board, returned value>>
make_move_checked(b, chess_move) ==
    LET legal_moves == get_legal_moves_for_square(b, get_from_idx(chess_move))
        filtered_moves == {m \in legal_moves : m = chess_move}
    IN IF filtered_moves = {} THEN <<b, FALSE>>
       ELSE <<make_move(b, CHOOSE m \in filtered_moves : TRUE, FALSE), TRUE>>

\* ChessBoard::make_move_uci: the set of <<board, returned value>> it can give.
\* The move made is the last of the generated moves with the text uci; the
\* set of moves keeps no order, so every move with that text gives an outcome.
make_move_uci(b, uci) ==
    LET from == text_to_square(SubSeq(uci, 1, 2))
        legal_moves == get_legal_moves_for_square(b, from)
        filtered_moves == {m \in legal_moves : to_uci(m) = uci}
    IN IF filtered_moves = {} THEN {<<b, "None">>}
       ELSE {<<make_move(b, m, FALSE), "Some">> : m \in filtered_moves}

\* ------------------------------------------------------------------ to_fen
\* PieceType::to_char
PieceType_to_char(t) ==
    CASE t = Pawn -> "p" [] t = Knight -> "n" [] t = Bishop -> "b"
      [] t = Rook -> "r" [] t = Queen -> "q" [] t = King -> "k" [] OTHER -> " "

to_ascii_uppercase(ch) ==
    CASE ch = "p" -> "P" [] ch = "n" -> "N" [] ch = "b" -> "B"
      [] ch = "r" -> "R" [] ch = "q" -> "Q" [] ch = "k" -> "K" [] OTHER -> ch

\* Piece::to_char without the upper case of white pieces
Piece_to_char_lower_case(p) == PieceType_to_char(get_piece_type(p))

\* Piece::to_char
Piece_to_char(p) ==
    LET c == PieceType_to_char(get_piece_type(p))
    IN IF c # " " /\ get_color(p) = White THEN to_ascii_uppercase(c) ELSE c

\* (b'0' + n) as char for a digit n
digit_char(n) == (<<"0", "1", "2", "3", "4", "5", "6", "7", "8", "9">>)[n + 1]

\* u8::to_string and u16::to_string
RECURSIVE to_string(_)
to_string(n) == IF n < 10 THEN <<digit_char(n)>> ELSE Append(to_string(n \div 10), digit_char(n % 10))

\* the "Board" loops of to_fen: k counts the squares visited, rank 8 first and
\* each rank from the a file; fen is the text so far (evaluated at each step,
\* as in split)
RECURSIVE to_fen_board(_, _, _, _)
to_fen_board(b, k, empty_counter, fen) ==
    IF k = 64 THEN SubSeq(fen, 1, Len(fen) - 1)
    ELSE LET idx == (7 - (k \div 8)) * 8 + (k % 8)
             piece == get_piece(b, idx)
             counter1 == IF is_none(piece) THEN empty_counter + 1 ELSE 0
             fen1 == IF is_none(piece) THEN fen
                     ELSE (IF empty_counter # 0 THEN Append(fen, digit_char(empty_counter)) ELSE fen)
                          \o <<Piece_to_char(piece)>>
             fen2 == IF k % 8 = 7
                     THEN (IF counter1 # 0 THEN Append(fen1, digit_char(counter1)) ELSE fen1) \o <<"/">>
                     ELSE fen1
             counter2 == IF k % 8 = 7 THEN 0 ELSE counter1
         IN IF fen2 = fen2 /\ counter2 = counter2 THEN to_fen_board(b, k + 1, counter2, fen2)
            ELSE fen2

\* ChessBoard::to_fen
to_fen(b) ==
    to_fen_board(b, 0, 0, <<>>)
    \o <<" ", IF b.turn = White THEN "w" ELSE "b", " ">>
    \o (IF \E i \in 0..3 : b.castling_rights[i]
        THEN (IF b.castling_rights[0] THEN <<"K">> ELSE <<>>)
             \o (IF b.castling_rights[1] THEN <<"Q">> ELSE <<>>)
             \o (IF b.castling_rights[2] THEN <<"k">> ELSE <<>>)
             \o (IF b.castling_rights[3] THEN <<"q">> ELSE <<>>)
        ELSE <<"-">>)
    \o <<" ">>
    \o (IF b.en_passant # -1 THEN square_to_chars(b.en_passant) ELSE <<"-">>)
    \o <<" ">> \o to_string(b.half_move) \o <<" ">> \o to_string(b.full_move)

\* ------------------------------------------------------------------ positions
\* a FEN is the sequence of its fields: placement, side, castling, en passant,
\* half move, full move, each a sequence of characters

\* the standard starting position
\* rnbqkbnr/pppppppp/8/8/8/8/PPPPPPPP/RNBQKBNR w KQkq - 0 1
STARTPOS_FEN ==
    <<<<"r", "n", "b", "q", "k", "b", "n", "r", "/", "p", "p", "p", "p", "p", "p", "p", "p", "/", "8", "/", "8", "/", "8", "/", "8", "/", "P", "P", "P", "P", "P", "P", "P", "P", "/", "R", "N", "B", "Q", "K", "B", "N", "R">>, <<"w">>, <<"K", "Q", "k", "q">>, <<"-">>, <<"0">>, <<"1">>>>

\* white can capture en passant
\* 4k3/8/8/5Pp1/8/8/8/4K3 w - g6 0 1
FEN_EP_WHITE ==
    <<<<"4", "k", "3", "/", "8", "/", "8", "/", "5", "P", "p", "1", "/", "8", "/", "8", "/", "8", "/", "4", "K", "3">>, <<"w">>, <<"-">>, <<"g", "6">>, <<"0">>, <<"1">>>>

\* black can capture en passant
\* 8/8/8/8/3pP3/k6K/8/8 b - e3 0 1
FEN_EP_BLACK ==
    <<<<"8", "/", "8", "/", "8", "/", "8", "/", "3", "p", "P", "3", "/", "k", "6", "K", "/", "8", "/", "8">>, <<"b">>, <<"-">>, <<"e", "3">>, <<"0">>, <<"1">>>>

\* both sides one step from promoting
\* 4k3/2P5/4K3/8/8/8/5p2/8 b - - 0 1
TEST_PROMOTION_FEN ==
    <<<<"4", "k", "3", "/", "2", "P", "5", "/", "4", "K", "3", "/", "8", "/", "8", "/", "8", "/", "5", "p", "2", "/", "8">>, <<"b">>, <<"-">>, <<"-">>, <<"0">>, <<"1">>>>

\* white promotes by pushing or by capturing
\* 1n2k3/2P5/4K3/8/8/8/8/8 w - - 4 30
FEN_PROMOTION_WHITE ==
    <<<<"1", "n", "2", "k", "3", "/", "2", "P", "5", "/", "4", "K", "3", "/", "8", "/", "8", "/", "8", "/", "8", "/", "8">>, <<"w">>, <<"-">>, <<"-">>, <<"4">>, <<"3", "0">>>>

\* both sides can castle king side
\* 4k2r/7p/8/8/8/8/7P/4K2R w Kk - 0 20
FEN_CASTLE_KING_SIDE ==
    <<<<"4", "k", "2", "r", "/", "7", "p", "/", "8", "/", "8", "/", "8", "/", "8", "/", "7", "P", "/", "4", "K", "2", "R">>, <<"w">>, <<"K", "k">>, <<"-">>, <<"0">>, <<"2", "0">>>>

\* both sides can castle queen side
\* r3k3/p7/8/8/8/8/P7/R3K3 b Qq - 2 20
FEN_CASTLE_QUEEN_SIDE ==
    <<<<"r", "3", "k", "3", "/", "p", "7", "/", "8", "/", "8", "/", "8", "/", "8", "/", "P", "7", "/", "R", "3", "K", "3">>, <<"b">>, <<"Q", "q">>, <<"-">>, <<"2">>, <<"2", "0">>>>

\* a knight can capture the rook on h8
\* 4k2r/7p/6N1/8/8/8/8/4K3 w k - 0 30
FEN_ROOK_CAPTURE ==
    <<<<"4", "k", "2", "r", "/", "7", "p", "/", "6", "N", "1", "/", "8", "/", "8", "/", "8", "/", "8", "/", "4", "K", "3">>, <<"w">>, <<"k">>, <<"-">>, <<"0">>, <<"3", "0">>>>

\* d7d5 discovers a check by the bishop and allows en passant
\* 2b5/3p4/8/4PK2/8/8/8/k7 b - - 0 40
FEN_DISCOVERED ==
    <<<<"2", "b", "5", "/", "3", "p", "4", "/", "8", "/", "4", "P", "K", "2", "/", "8", "/", "8", "/", "8", "/", "k", "7">>, <<"b">>, <<"-">>, <<"-">>, <<"0">>, <<"4", "0">>>>

\* the position after d7d5 in FEN_DISCOVERED: white is in check by the bishop
\* and its pawn, on the king's rank, can capture en passant
\* 2b5/8/8/3pPK2/8/8/8/k7 w - d6 0 41
FEN_EP_RANK_CHECK ==
    <<<<"2", "b", "5", "/", "8", "/", "8", "/", "3", "p", "P", "K", "2", "/", "8", "/", "8", "/", "8", "/", "k", "7">>, <<"w">>, <<"-">>, <<"d", "6">>, <<"0">>, <<"4", "1">>>>

\* the capturing pawn is pinned along the diagonal of its capture
\* 8/2b5/8/3pP3/8/6K1/8/k7 w - d6 0 40
FEN_EP_DIAG_PINNED ==
    <<<<"8", "/", "2", "b", "5", "/", "8", "/", "3", "p", "P", "3", "/", "8", "/", "6", "K", "1", "/", "8", "/", "k", "7">>, <<"w">>, <<"-">>, <<"d", "6">>, <<"0">>, <<"4", "0">>>>

\* the captured pawn and a knight both stand between bishop and king
\* 6b1/8/4n3/3pP3/8/1K6/8/7k w - d6 0 40
FEN_EP_SHIELD ==
    <<<<"6", "b", "1", "/", "8", "/", "4", "n", "3", "/", "3", "p", "P", "3", "/", "8", "/", "1", "K", "6", "/", "8", "/", "7", "k">>, <<"w">>, <<"-">>, <<"d", "6">>, <<"0">>, <<"4", "0">>>>

\* the captured pawn stands between a rook and the king on a file
\* 3r3k/8/8/2Pp4/8/8/3K4/8 w - d6 0 4
FEN_EP_VERTICAL_PIN ==
    <<<<"3", "r", "3", "k", "/", "8", "/", "8", "/", "2", "P", "p", "4", "/", "8", "/", "8", "/", "3", "K", "4", "/", "8">>, <<"w">>, <<"-">>, <<"d", "6">>, <<"0">>, <<"4">>>>

\* the captured pawn alone shields the king from the queen's diagonal
\* qk6/8/8/3pP3/8/5K2/8/8 w - d6 0 1
FEN_EP_PIN ==
    <<<<"q", "k", "6", "/", "8", "/", "8", "/", "3", "p", "P", "3", "/", "8", "/", "5", "K", "2", "/", "8", "/", "8">>, <<"w">>, <<"-">>, <<"d", "6">>, <<"0">>, <<"1">>>>

\* both pawns leave the rank between rook and king
\* 8/8/8/1krpP1K1/8/8/8/8 w - d6 0 1
FEN_EP_REVEAL ==
    <<<<"8", "/", "8", "/", "8", "/", "1", "k", "r", "p", "P", "1", "K", "1", "/", "8", "/", "8", "/", "8", "/", "8">>, <<"w">>, <<"-">>, <<"d", "6">>, <<"0">>, <<"1">>>>

\* the pawn that just moved two squares gives check
\* 8/8/8/2k5/3Pp3/8/8/4K3 b - d3 0 1
FEN_EP_IN_CHECK ==
    <<<<"8", "/", "8", "/", "8", "/", "2", "k", "5", "/", "3", "P", "p", "3", "/", "8", "/", "8", "/", "4", "K", "3">>, <<"b">>, <<"-">>, <<"d", "3">>, <<"0">>, <<"1">>>>

\* a pawn pinned on a diagonal
\* 6k1/6p1/8/1r2p2K/4b1P1/P7/8/3q4 w - - 3 49
FEN_PAWN_PIN ==
    <<<<"6", "k", "1", "/", "6", "p", "1", "/", "8", "/", "1", "r", "2", "p", "2", "K", "/", "4", "b", "1", "P", "1", "/", "P", "7", "/", "8", "/", "3", "q", "4">>, <<"w">>, <<"-">>, <<"-">>, <<"3">>, <<"4", "9">>>>

\* a pawn and a rook pinned
\* 4k3/8/8/8/7b/8/5P2/r2RK3 w - - 7 50
FEN_PIN ==
    <<<<"4", "k", "3", "/", "8", "/", "8", "/", "8", "/", "7", "b", "/", "8", "/", "5", "P", "2", "/", "r", "2", "R", "K", "3">>, <<"w">>, <<"-">>, <<"-">>, <<"7">>, <<"5", "0">>>>

\* double check
\* 4k3/8/8/8/2B5/5n2/4r3/4K3 w - - 0 60
FEN_DOUBLE_CHECK ==
    <<<<"4", "k", "3", "/", "8", "/", "8", "/", "8", "/", "2", "B", "5", "/", "5", "n", "2", "/", "4", "r", "3", "/", "4", "K", "3">>, <<"w">>, <<"-">>, <<"-">>, <<"0">>, <<"6", "0">>>>

\* blocked pawns, a high half-move counter
\* 8/4k3/3p1p2/2pP1Pp1/2P1K1P1/8/8/8 w - - 69 420
FEN_HALF_MOVES ==
    <<<<"8", "/", "4", "k", "3", "/", "3", "p", "1", "p", "2", "/", "2", "p", "P", "1", "P", "p", "1", "/", "2", "P", "1", "K", "1", "P", "1", "/", "8", "/", "8", "/", "8">>, <<"w">>, <<"-">>, <<"-">>, <<"6", "9">>, <<"4", "2", "0">>>>

\* no white king
\* 4k3/8/8/8/8/8/8/8 w - - 0 1
FEN_NO_WHITE_KING ==
    <<<<"4", "k", "3", "/", "8", "/", "8", "/", "8", "/", "8", "/", "8", "/", "8", "/", "8">>, <<"w">>, <<"-">>, <<"-">>, <<"0">>, <<"1">>>>

\* no black king
\* 8/8/8/8/8/8/8/4K3 w - - 0 1
FEN_NO_BLACK_KING ==
    <<<<"8", "/", "8", "/", "8", "/", "8", "/", "8", "/", "8", "/", "8", "/", "4", "K", "3">>, <<"w">>, <<"-">>, <<"-">>, <<"0">>, <<"1">>>>

\* the side not to move is in check
\* k7/8/1N6/3K4/8/1n6/8/8 w - - 0 1
FEN_OPPONENT_IN_CHECK ==
    <<<<"k", "7", "/", "8", "/", "1", "N", "6", "/", "3", "K", "4", "/", "8", "/", "1", "n", "6", "/", "8", "/", "8">>, <<"w">>, <<"-">>, <<"-">>, <<"0">>, <<"1">>>>

\* neither king
\* 8/8/8/8/8/8/8/7p w - - 0 1
FEN_NO_KINGS ==
    <<<<"8", "/", "8", "/", "8", "/", "8", "/", "8", "/", "8", "/", "8", "/", "7", "p">>, <<"w">>, <<"-">>, <<"-">>, <<"0">>, <<"1">>>>

\* black to move while white's king is attacked
\* k7/4n3/8/3K4/8/1N6/8/8 b - - 0 1
FEN_OPPONENT_IN_CHECK_BLACK ==
    <<<<"k", "7", "/", "4", "n", "3", "/", "8", "/", "3", "K", "4", "/", "8", "/", "1", "N", "6", "/", "8", "/", "8">>, <<"b">>, <<"-">>, <<"-">>, <<"0">>, <<"1">>>>

\* queen side castling with the b file attacked
\* 1r2k3/8/8/8/8/8/8/R3K3 w Q - 0 1
FEN_CASTLE_B_FILE ==
    <<<<"1", "r", "2", "k", "3", "/", "8", "/", "8", "/", "8", "/", "8", "/", "8", "/", "8", "/", "R", "3", "K", "3">>, <<"w">>, <<"Q">>, <<"-">>, <<"0">>, <<"1">>>>

\* queen side castling with the d file attacked
\* 3rk3/8/8/8/8/8/8/R3K3 w Q - 0 1
FEN_CASTLE_D_FILE ==
    <<<<"3", "r", "k", "3", "/", "8", "/", "8", "/", "8", "/", "8", "/", "8", "/", "8", "/", "R", "3", "K", "3">>, <<"w">>, <<"Q">>, <<"-">>, <<"0">>, <<"1">>>>

\* a rook on its corner that can be captured, a second rook that can take its place
\* 4k3/1b6/8/8/8/8/7R/4K2R b K - 0 1
FEN_ROOK_BEHIND_CORNER ==
    <<<<"4", "k", "3", "/", "1", "b", "6", "/", "8", "/", "8", "/", "8", "/", "8", "/", "7", "R", "/", "4", "K", "2", "R">>, <<"b">>, <<"K">>, <<"-">>, <<"0">>, <<"1">>>>

\* kings that can shuffle and a pawn whose move clears the table
\* 4k3/7p/8/8/8/8/8/4K3 w - - 0 1
FEN_PAWN_AND_KINGS ==
    <<<<"4", "k", "3", "/", "7", "p", "/", "8", "/", "8", "/", "8", "/", "8", "/", "8", "/", "4", "K", "3">>, <<"w">>, <<"-">>, <<"-">>, <<"0">>, <<"1">>>>

\* a double step that lets the other side capture en passant
\* 4k3/3p4/8/4P3/8/8/8/4K3 b - - 0 1
FEN_EP_AHEAD ==
    <<<<"4", "k", "3", "/", "3", "p", "4", "/", "8", "/", "4", "P", "3", "/", "8", "/", "8", "/", "8", "/", "4", "K", "3">>, <<"b">>, <<"-">>, <<"-">>, <<"0">>, <<"1">>>>

\* perft.rs POSITION_3: the counter fields are left out
\* 8/2p5/3p4/KP5r/1R3p1k/8/4P1P1/8 w - - 
POSITION_3 ==
    <<<<"8", "/", "2", "p", "5", "/", "3", "p", "4", "/", "K", "P", "5", "r", "/", "1", "R", "3", "p", "1", "k", "/", "8", "/", "4", "P", "1", "P", "1", "/", "8">>, <<"w">>, <<"-">>, <<"-">>, <<>>>>

\* the fields from the castling field on are left out
\* 4k3/8/8/8/8/8/8/4K2R w
FEN_NO_CASTLING_FIELD ==
    <<<<"4", "k", "3", "/", "8", "/", "8", "/", "8", "/", "8", "/", "8", "/", "8", "/", "4", "K", "2", "R">>, <<"w">>>>

\* the half-move field holds the largest u8
\* 4k3/8/8/8/8/8/P7/4Kn2 w - - 255 200
FEN_HALF_MOVE_MAX ==
    <<<<"4", "k", "3", "/", "8", "/", "8", "/", "8", "/", "8", "/", "8", "/", "P", "7", "/", "4", "K", "n", "2">>, <<"w">>, <<"-">>, <<"-">>, <<"2", "5", "5">>, <<"2", "0", "0">>>>

\* the same three plies earlier
\* 4k3/8/8/8/8/8/P7/4Kn2 w - - 253 200
FEN_HALF_MOVE_NEAR ==
    <<<<"4", "k", "3", "/", "8", "/", "8", "/", "8", "/", "8", "/", "8", "/", "P", "7", "/", "4", "K", "n", "2">>, <<"w">>, <<"-">>, <<"-">>, <<"2", "5", "3">>, <<"2", "0", "0">>>>

\* kings that can shuffle, a pawn that can move and a knight that can be captured
\* 4k3/8/8/8/8/8/P7/4Kn2 w - - 0 1
FEN_SHUFFLE ==
    <<<<"4", "k", "3", "/", "8", "/", "8", "/", "8", "/", "8", "/", "8", "/", "P", "7", "/", "4", "K", "n", "2">>, <<"w">>, <<"-">>, <<"-">>, <<"0">>, <<"1">>>>

\* the same two plies before the fifty-move rule applies
\* 4k3/8/8/8/8/8/P7/4Kn2 w - - 98 60
FEN_FIFTY ==
    <<<<"4", "k", "3", "/", "8", "/", "8", "/", "8", "/", "8", "/", "8", "/", "P", "7", "/", "4", "K", "n", "2">>, <<"w">>, <<"-">>, <<"-">>, <<"9", "8">>, <<"6", "0">>>>

\* the positions parse_fen is called with
FENS ==
    {STARTPOS_FEN,
     FEN_EP_WHITE,
     FEN_EP_BLACK,
     TEST_PROMOTION_FEN,
     FEN_PROMOTION_WHITE,
     FEN_CASTLE_KING_SIDE,
     FEN_CASTLE_QUEEN_SIDE,
     FEN_ROOK_CAPTURE,
     FEN_DISCOVERED,
     FEN_EP_RANK_CHECK,
     FEN_EP_DIAG_PINNED,
     FEN_EP_SHIELD,
     FEN_EP_VERTICAL_PIN,
     FEN_EP_PIN,
     FEN_EP_REVEAL,
     FEN_EP_IN_CHECK,
     FEN_PAWN_PIN,
     FEN_PIN,
     FEN_DOUBLE_CHECK,
     FEN_HALF_MOVES,
     FEN_NO_WHITE_KING,
     FEN_NO_BLACK_KING,
     FEN_OPPONENT_IN_CHECK,
     FEN_NO_KINGS,
     FEN_CASTLE_B_FILE,
     FEN_CASTLE_D_FILE,
     FEN_OPPONENT_IN_CHECK_BLACK}

\* ------------------------------------------------------------------ state machine
\* most make_move calls explored after one parse_fen
MaxMakes == 1

\* most make_move calls explored after one parse_fen when the few positions of
\* REP_FENS are played on to fill the repetition table
MaxRepMakes == 2

\* result is what the last parse_fen returned ("None" before the first call),
\* makes the number of make_move calls since then
\* attack_map is the initialiser of ROOK_ATTACK_MAP / BISHOP_ATTACK_MAP at work:
\* the map being filled (slider), the square whose row is being filled, the
\* row map[square] so far and the number of blocker bitboards stored in it
VARIABLES bitboards, side_bitboards, board, turn, en_passant, castling_rights,
          half_move, full_move, zobrist_hash, repetitions, move_history,
          result, makes,
          attack_map

vars == <<bitboards, side_bitboards, board, turn, en_passant, castling_rights,
          half_move, full_move, zobrist_hash, repetitions, move_history, result, makes,
          attack_map>>

\* the ChessBoard the variables hold
Cur ==
    [bitboards |-> bitboards, side_bitboards |-> side_bitboards, board |-> board,
     turn |-> turn, en_passant |-> en_passant, castling_rights |-> castling_rights,
     half_move |-> half_move, full_move |-> full_move, zobrist_hash |-> zobrist_hash,
     repetitions |-> repetitions, move_history |-> move_history]

Store(b) ==
    /\ bitboards' = b.bitboards
    /\ side_bitboards' = b.side_bitboards
    /\ board' = b.board
    /\ turn' = b.turn
    /\ en_passant' = b.en_passant
    /\ castling_rights' = b.castling_rights
    /\ half_move' = b.half_move
    /\ full_move' = b.full_move
    /\ zobrist_hash' = b.zobrist_hash
    /\ repetitions' = b.repetitions
    /\ move_history' = b.move_history
    /\ UNCHANGED attack_map

Init ==
    /\ bitboards = ChessBoard_new.bitboards
    /\ side_bitboards = ChessBoard_new.side_bitboards
    /\ board = ChessBoard_new.board
    /\ turn = ChessBoard_new.turn
    /\ en_passant = ChessBoard_new.en_passant
    /\ castling_rights = ChessBoard_new.castling_rights
    /\ half_move = ChessBoard_new.half_move
    /\ full_move = ChessBoard_new.full_move
    /\ zobrist_hash = ChessBoard_new.zobrist_hash
    /\ repetitions = ChessBoard_new.repetitions
    /\ move_history = ChessBoard_new.move_history
    /\ result = "None"
    /\ makes = 0
    /\ attack_map = ATTACK_MAP_UNSET

\* board.parse_fen(fen): a position is set up before any move is made
ParseFen(fen) ==
    /\ makes = 0
    /\ LET r == parse_fen(Cur, fen)
       IN /\ Store(r[1])
          /\ result' = r[2]
    /\ makes' = 0

\* board.make_move(m, is_in_search) for a move of get_legal_moves()
MakeMove(chess_move, is_in_search) ==
    /\ result = "Ok"
    /\ Store(make_move(Cur, chess_move, is_in_search))
    /\ makes' = makes + 1
    /\ UNCHANGED result

\* a capture search: board.make_move(m, true) for a move of get_legal_captures()
MakeCapture(chess_move) ==
    /\ chess_move \in get_legal_moves(Cur, FALSE)
    /\ MakeMove(chess_move, TRUE)

\* board.unmake_move()
UnmakeMove ==
    /\ result = "Ok"
    /\ move_history # <<>>
    /\ Store(unmake_move(Cur))
    /\ UNCHANGED <<result, makes>>

Next ==
    \/ \E fen \in FENS : ParseFen(fen)
    \/ \E chess_move \in (IF result = "Ok" /\ makes < MaxMakes
                          THEN get_legal_moves(Cur, TRUE) ELSE {}) :
          \E is_in_search \in BOOLEAN : MakeMove(chess_move, is_in_search)
    \/ \E chess_move \in (IF result = "Ok" /\ makes < MaxMakes
                          THEN get_legal_moves(Cur, FALSE) ELSE {}) : MakeCapture(chess_move)
    \/ UnmakeMove

Spec == Init /\ [][Next]_vars

\* the positions played on for the repetition table: kings shuffling between
\* blocked pawns, and a position with pawn moves and a capture
REP_FENS == {FEN_HALF_MOVES, FEN_EP_WHITE}

NextRep ==
    \/ \E fen \in REP_FENS : ParseFen(fen)
    \/ \E chess_move \in (IF result = "Ok" /\ makes < MaxRepMakes
                          THEN get_legal_moves(Cur, TRUE) ELSE {}) :
          \E is_in_search \in BOOLEAN : MakeMove(chess_move, is_in_search)
    \/ UnmakeMove

SpecRep == Init /\ [][NextRep]_vars

\* the positions played on, out of search, until positions repeat and the
\* half-move counter passes 100
DRAW_FENS == {FEN_SHUFFLE, FEN_FIFTY}

\* the squares the moves played in these positions start from and land on:
\* a2 a3, d1 e1 f1, e2, e7, d8 e8
DRAW_SQUARES == {8, 16, 3, 4, 5, 12, 52, 59, 60}

\* most make_move calls explored after one parse_fen of DRAW_FENS
MaxDrawMakes == 8

NextDraw ==
    \/ \E fen \in DRAW_FENS : ParseFen(fen)
    \/ \E chess_move \in (IF result = "Ok" /\ makes < MaxDrawMakes
                          THEN {m \in get_legal_moves(Cur, TRUE) :
                                  /\ get_from_idx(m) \in DRAW_SQUARES
                                  /\ get_to_idx(m) \in DRAW_SQUARES}
                          ELSE {}) : MakeMove(chess_move, FALSE)

SpecDraw == Init /\ [][NextDraw]_vars

\* the positions the checked makes are tried in
CHECKED_FENS ==
    {FEN_EP_RANK_CHECK, FEN_EP_DIAG_PINNED, FEN_EP_PIN, FEN_EP_REVEAL, FEN_EP_WHITE,
     FEN_EP_BLACK, TEST_PROMOTION_FEN, FEN_PROMOTION_WHITE, FEN_CASTLE_KING_SIDE,
     FEN_CASTLE_QUEEN_SIDE, FEN_PIN, FEN_DOUBLE_CHECK, FEN_ROOK_CAPTURE, STARTPOS_FEN}

\* the moves make_move_checked is called with on board b: for each piece of the
\* side to move its steps to the squares around it (a knight's jumps, a pawn's
\* pushes and captures, a king's castling squares), each with no flag, as an
\* en passant capture, as a castle and as a promotion to queen and to knight
CheckedMoves(b) ==
    LET own == {a \in ALL : ~is_none(b.board[a]) /\ get_color(b.board[a]) = b.turn}
        targets(a) ==
            CASE get_piece_type(b.board[a]) = Pawn ->
                     {a + 8, a - 8, a + 16, a - 16} \cup get_pawn_attack(b.turn, a)
              [] get_piece_type(b.board[a]) = King ->
                     get_king_attack(a) \cup {a + 2, a - 2}
              [] get_piece_type(b.board[a]) = Knight -> get_knight_attack(a)
              [] OTHER -> get_king_attack(a)
    IN {NewMove(a, t, flag) : <<a, t>> \in {<<a, t>> \in own \X ALL : t \in targets(a)},
                              flag \in {FlagNone, EnPassant, Castle, PromoteQueen, PromoteKnight}}

\* the texts make_move_uci is called with on board b
CheckedUcis(b) == {to_uci(m) : m \in CheckedMoves(b)}

\* most checked makes applied after one parse_fen of CHECKED_FENS
MaxCheckedMakes == 1

\* board.make_move_checked(chess_move)
MakeMoveChecked(chess_move) ==
    /\ result = "Ok"
    /\ LET r == make_move_checked(Cur, chess_move)
       IN /\ Store(r[1])
          /\ makes' = IF r[2] THEN makes + 1 ELSE makes
    /\ UNCHANGED result

\* board.make_move_uci(uci)
MakeMoveUci(uci) ==
    /\ result = "Ok"
    /\ \E r \in make_move_uci(Cur, uci) :
          /\ Store(r[1])
          /\ makes' = IF r[2] = "Some" THEN makes + 1 ELSE makes
    /\ UNCHANGED result

NextChecked ==
    \/ \E fen \in CHECKED_FENS : ParseFen(fen)
    \/ \E chess_move \in (IF result = "Ok" /\ makes < MaxCheckedMakes
                          THEN CheckedMoves(Cur) ELSE {}) : MakeMoveChecked(chess_move)
    \/ \E uci \in (IF result = "Ok" /\ makes < MaxCheckedMakes
                   THEN CheckedUcis(Cur) ELSE {}) : MakeMoveUci(uci)

SpecChecked == Init /\ [][NextChecked]_vars

\* the positions whose FEN text is written and read back: the start position,
\* en passant targets, castling rights, promotions, counters of several digits
ROUND_TRIP_FENS ==
    {STARTPOS_FEN, FEN_EP_WHITE, FEN_EP_RANK_CHECK, FEN_CASTLE_QUEEN_SIDE,
     FEN_ROOK_CAPTURE, FEN_PROMOTION_WHITE, FEN_HALF_MOVES}

\* most make_move calls explored after one parse_fen of ROUND_TRIP_FENS
MaxFenMakes == 1

NextFen ==
    \/ \E fen \in ROUND_TRIP_FENS : ParseFen(fen)
    \/ \E chess_move \in (IF result = "Ok" /\ makes < MaxFenMakes
                          THEN get_legal_moves(Cur, TRUE) ELSE {}) :
          \E is_in_search \in BOOLEAN : MakeMove(chess_move, is_in_search)
    \/ UnmakeMove

SpecFen == Init /\ [][NextFen]_vars

\* the positions perft is run in
PERFT_FENS ==
    {STARTPOS_FEN, FEN_EP_WHITE, FEN_EP_BLACK, FEN_EP_DIAG_PINNED, FEN_EP_SHIELD,
     FEN_DISCOVERED, FEN_CASTLE_KING_SIDE, FEN_PROMOTION_WHITE, FEN_PIN, FEN_DOUBLE_CHECK,
     FEN_EP_AHEAD}

\* most make_move calls explored after one parse_fen of PERFT_FENS
MaxPerftMakes == 1

\* deepest perft run
MaxPerftDepth == 2

\* board.perft(depth, false)
Perft(depth) ==
    /\ result = "Ok"
    /\ Store(perft(Cur, depth)[1])
    /\ UNCHANGED <<result, makes>>

NextPerft ==
    \/ \E fen \in PERFT_FENS : ParseFen(fen)
    \/ \E chess_move \in (IF result = "Ok" /\ makes < MaxPerftMakes
                          THEN get_legal_moves(Cur, TRUE) ELSE {}) : MakeMove(chess_move, FALSE)
    \/ \E depth \in 0..MaxPerftDepth : Perft(depth)
    \/ UnmakeMove

SpecPerft == Init /\ [][NextPerft]_vars

\* the hashes the table is called with: 0 (no key), two hashes of one slot, a
\* hash other than 0 whose slot is 0, and a hash with a slot of its own
TABLE_HASHES == {{}, {439}, {0, 2}, {0, 2, 439}, {5}}

\* highest count the calls on the table bring a slot to
MaxTableCount == 2

\* repetitions.increment_repetition(hash)
IncrementRepetition(hash) ==
    /\ \/ repetitions[Slot(hash)].zobrist_hash # hash
       \/ repetitions[Slot(hash)].repetitions < MaxTableCount
    /\ repetitions' = increment_repetition(repetitions, hash)[1]
    /\ UNCHANGED <<bitboards, side_bitboards, board, turn, en_passant, castling_rights,
                   half_move, full_move, zobrist_hash, move_history, result, makes,
                   attack_map>>

\* repetitions.increment_existing_repetition(hash)
IncrementExistingRepetition(hash) ==
    /\ repetitions[Slot(hash)].repetitions < MaxTableCount
    /\ repetitions' = increment_existing_repetition(repetitions, hash)[1]
    /\ UNCHANGED <<bitboards, side_bitboards, board, turn, en_passant, castling_rights,
                   half_move, full_move, zobrist_hash, move_history, result, makes,
                   attack_map>>

\* repetitions.decrement_repetition(hash), called as unmake_move means to call
\* it: not on a stored hash whose count is 0
DecrementRepetition(hash) ==
    /\ \/ repetitions[Slot(hash)].zobrist_hash # hash
       \/ repetitions[Slot(hash)].repetitions > 0
    /\ repetitions' = decrement_repetition(repetitions, hash)[1]
    /\ UNCHANGED <<bitboards, side_bitboards, board, turn, en_passant, castling_rights,
                   half_move, full_move, zobrist_hash, move_history, result, makes,
                   attack_map>>

\* repetitions.clear()
Clear ==
    /\ repetitions' = RepetitionTable_clear(repetitions)
    /\ UNCHANGED <<bitboards, side_bitboards, board, turn, en_passant, castling_rights,
                   half_move, full_move, zobrist_hash, move_history, result, makes,
                   attack_map>>

NextTable ==
    \/ \E hash \in TABLE_HASHES : IncrementRepetition(hash)
    \/ \E hash \in TABLE_HASHES : IncrementExistingRepetition(hash)
    \/ \E hash \in TABLE_HASHES : DecrementRepetition(hash)
    \/ Clear

SpecTable == Init /\ [][NextTable]_vars

\* the position played on to see a rook captured on its corner and replaced
CASTLE_FENS == {FEN_ROOK_BEHIND_CORNER, FEN_ROOK_CAPTURE}

\* most make_move calls explored after one parse_fen of CASTLE_FENS
MaxCastleMakes == 3

NextCastle ==
    \/ \E fen \in CASTLE_FENS : ParseFen(fen)
    \/ \E chess_move \in (IF result = "Ok" /\ makes < MaxCastleMakes
                          THEN get_legal_moves(Cur, TRUE) ELSE {}) : MakeMove(chess_move, FALSE)

SpecCastle == Init /\ [][NextCastle]_vars

\* the position whose moves are made and taken back
UNDO_FENS == {FEN_PAWN_AND_KINGS}

\* the squares the moves made in it start from and land on: d1 e1, h6 h7, e7 e8
UNDO_SQUARES == {3, 4, 47, 55, 52, 60}

\* most make_move calls explored after one parse_fen of UNDO_FENS
MaxUndoMakes == 6

NextUndo ==
    \/ \E fen \in UNDO_FENS : ParseFen(fen)
    \/ \E chess_move \in (IF result = "Ok" /\ makes < MaxUndoMakes
                          THEN {m \in get_legal_moves(Cur, TRUE) :
                                  /\ get_from_idx(m) \in UNDO_SQUARES
                                  /\ get_to_idx(m) \in UNDO_SQUARES}
                          ELSE {}) :
          \E is_in_search \in BOOLEAN : MakeMove(chess_move, is_in_search)
    \/ UnmakeMove

SpecUndo == Init /\ [][NextUndo]_vars

\* ------------------------------------------------------------------ properties
\* the last move made and not yet unmade
LastMove == move_history[Len(move_history)]

\* C1: after parse_fen and after every make_move and unmake_move the
\* incrementally kept zobrist_hash equals create_zobrist_hash() of the position
C1_HashIsFromScratch ==
    result = "Ok" => zobrist_hash = create_zobrist_hash(Cur)

\* the step is a make_move: the only one that lengthens the move history
MadeMove == Len(move_history') = Len(move_history) + 1

\* the board without the fields ChessBoard's PartialEq leaves out
ComparedFields(b) == [b EXCEPT !.zobrist_hash = {}, !.repetitions = <<>>]

\* C2: unmake_move called right after any make_move of a legal move restores
\* the bitboards, the side bitboards, the mailbox, the turn, the en passant
\* target, the castling rights, both counters and the move history of the
\* position the move was made in
C2_UnmakeRestores ==
    [][MadeMove => ComparedFields(unmake_move(Cur')) = ComparedFields(Cur)]_vars

\* a castle has been made, for unmake_move to take back
C2_Witness ==
    /\ move_history # <<>>
    /\ get_flag(LastMove.board_move) = Castle

\* the step is a make_move with is_in_search = true of the move it put on the
\* history
SearchMadeMove ==
    /\ MadeMove
    /\ Cur' = make_move(Cur, move_history'[Len(move_history')].board_move, TRUE)

C4_MailboxAgreesWithBitboards ==
    /\ \A square \in 0..63 :
          LET p == board[square]
          IN /\ ~is_none(p) =>
                   /\ square \in bitboards[get_piece_index(p)]
                   /\ square \in side_bitboards[get_color(p)]
                   /\ \A i \in 0..11 : i # get_piece_index(p) => square \notin bitboards[i]
             /\ is_none(p) <=> square \notin (side_bitboards[White] \cup side_bitboards[Black])
    /\ \A color \in {White, Black} :
          side_bitboards[color] =
              UNION {bitboards[get_side_index(t, color)] : t \in Pawn..King}

\* a capture has been made: set_piece took one piece off the bitboards and put
\* another in its place
C4_Witness ==
    /\ move_history # <<>>
    /\ ~is_none(LastMove.captured)
    /\ get_flag(LastMove.board_move) = FlagNone

\* ------------------------------------------------------------------ the rules of chess
\* what the rules say of a mailbox bd, stated without bitboards or masks

Abs(n) == IF n < 0 THEN -n ELSE n

Sign(n) == IF n < 0 THEN -1 ELSE IF n > 0 THEN 1 ELSE 0

\* the squares strictly between two squares of one rank, file or diagonal
RuleBetween(a, t) ==
    LET df == get_file(t) - get_file(a)
        dr == get_rank(t) - get_rank(a)
        n == IF Abs(df) > Abs(dr) THEN Abs(df) ELSE Abs(dr)
    IN {a + k * (8 * Sign(dr) + Sign(df)) : k \in 1..(n - 1)}

\* the piece standing on square a attacks square t
RuleAttacks(bd, a, t) ==
    LET p == bd[a]
        df == get_file(t) - get_file(a)
        dr == get_rank(t) - get_rank(a)
        open == \A m \in RuleBetween(a, t) : is_none(bd[m])
        straight == (df = 0) # (dr = 0)
        diagonal == Abs(df) = Abs(dr) /\ df # 0
    IN CASE get_piece_type(p) = Pawn ->
                Abs(df) = 1 /\ dr = (IF get_color(p) = White THEN 1 ELSE -1)
         [] get_piece_type(p) = Knight -> {Abs(df), Abs(dr)} = {1, 2}
         [] get_piece_type(p) = King -> Abs(df) <= 1 /\ Abs(dr) <= 1 /\ a # t
         [] get_piece_type(p) = Bishop -> diagonal /\ open
         [] get_piece_type(p) = Rook -> straight /\ open
         [] get_piece_type(p) = Queen -> (diagonal \/ straight) /\ open
         [] OTHER -> FALSE

\* square t is attacked by a piece of colour by
RuleAttacked(bd, t, by) ==
    \E a \in 0..63 : ~is_none(bd[a]) /\ get_color(bd[a]) = by /\ RuleAttacks(bd, a, t)

\* a king of colour color stands attacked
RuleInCheck(bd, color) ==
    \E k \in 0..63 : bd[k] = NewPiece(King, color) /\ RuleAttacked(bd, k, flipped(color))

\* C5: no move that get_legal_moves generates leaves the king of the side that
\* made it attacked
C5_MoverNotLeftInCheck ==
    [][MadeMove => ~RuleInCheck(board', turn)]_vars

\* the mailbox after move m by the rules: the piece moves (a promoting pawn
\* becomes the piece of the flag), the pawn captured en passant leaves the
\* square behind the target, the rook of a castle goes to the king's other side
RuleApply(bd, m) ==
    LET from == get_from_idx(m)
        to == get_to_idx(m)
        flag == get_flag(m)
        p == bd[from]
        moved == CASE flag = PromoteQueen -> NewPiece(Queen, get_color(p))
                   [] flag = PromoteRook -> NewPiece(Rook, get_color(p))
                   [] flag = PromoteBishop -> NewPiece(Bishop, get_color(p))
                   [] flag = PromoteKnight -> NewPiece(Knight, get_color(p))
                   [] OTHER -> p
        bd1 == [bd EXCEPT ![from] = None, ![to] = moved]
    IN CASE flag = EnPassant ->
                [bd1 EXCEPT ![IF get_color(p) = White THEN to - 8 ELSE to + 8] = None]
         [] flag = Castle /\ to > from ->
                [bd1 EXCEPT ![to + 1] = None, ![to - 1] = bd[to + 1]]
         [] flag = Castle /\ to < from ->
                [bd1 EXCEPT ![to - 2] = None, ![to + 1] = bd[to - 2]]
         [] OTHER -> bd1

\* the moves the pawn on square a may make before king safety is looked at
RulePawnMoves(b, a) ==
    LET bd == b.board
        color == get_color(bd[a])
        dir == IF color = White THEN 8 ELSE -8
        start_rank == IF color = White THEN 1 ELSE 6
        last_rank == IF color = White THEN 7 ELSE 0
        flags(t) == IF get_rank(t) = last_rank
                    THEN {PromoteQueen, PromoteRook, PromoteBishop, PromoteKnight}
                    ELSE {FlagNone}
        push == IF is_none(bd[a + dir]) THEN {a + dir} ELSE {}
        double == IF get_rank(a) = start_rank /\ is_none(bd[a + dir]) /\ is_none(bd[a + 2 * dir])
                  THEN {NewMove(a, a + 2 * dir, PawnTwoUp)} ELSE {}
        takes == {t \in 0..63 : /\ RuleAttacks(bd, a, t)
                                /\ ~is_none(bd[t])
                                /\ get_color(bd[t]) # color}
        passing == {t \in 0..63 : /\ t = b.en_passant
                                  /\ RuleAttacks(bd, a, t)
                                  /\ is_none(bd[t])
                                  /\ bd[t - dir] = NewPiece(Pawn, flipped(color))}
    IN {NewMove(a, t, f) : <<t, f>> \in UNION {{<<t, f>> : f \in flags(t)} : t \in push \cup takes}}
       \cup double
       \cup {NewMove(a, t, EnPassant) : t \in passing}

\* the castles of the side to move: the right is held, king and rook stand on
\* their squares, nothing stands between them, and the king is not attacked
\* where it stands, where it passes and where it lands
RuleCastles(b) ==
    LET bd == b.board
        color == b.turn
        home == IF color = White THEN E1 ELSE E1 + 56
        ok(right, corner, step) ==
            /\ b.castling_rights[right]
            /\ bd[home] = NewPiece(King, color)
            /\ bd[corner] = NewPiece(Rook, color)
            /\ \A m \in RuleBetween(home, corner) : is_none(bd[m])
            /\ \A t \in {home, home + step, home + 2 * step} :
                  ~RuleAttacked(bd, t, flipped(color))
    IN (IF ok(2 * color, home + 3, 1) THEN {NewMove(home, home + 2, Castle)} ELSE {})
       \cup (IF ok(2 * color + 1, home - 4, -1) THEN {NewMove(home, home - 2, Castle)} ELSE {})

\* the legal moves of the side to move by the rules of chess
RuleLegalMoves(b) ==
    LET bd == b.board
        own == {a \in 0..63 : ~is_none(bd[a]) /\ get_color(bd[a]) = b.turn}
        piece_moves(a) ==
            IF get_piece_type(bd[a]) = Pawn THEN RulePawnMoves(b, a)
            ELSE {NewMove(a, t, FlagNone) :
                    t \in {t \in 0..63 : /\ RuleAttacks(bd, a, t)
                                         /\ (is_none(bd[t]) \/ get_color(bd[t]) # b.turn)}}
        pseudo == UNION {piece_moves(a) : a \in own}
    IN {m \in pseudo : ~RuleInCheck(RuleApply(bd, m), b.turn)} \cup RuleCastles(b)

\* C6: every move that is legal by the rules of chess in the current position
\* is among get_legal_moves with quiets requested
C6_EveryLegalMoveGenerated ==
    result = "Ok" => RuleLegalMoves(Cur) \subseteq get_legal_moves(Cur, TRUE)

\* C7: the en passant moves that get_legal_moves generates are exactly the en
\* passant captures that are legal by the rules: none that exposes the king on
\* the rank or on a diagonal, and every one that takes the checking pawn or a
\* pawn that is only pinned on its file
C7_EnPassantExactlyWhenLegal ==
    result = "Ok" =>
        {m \in get_legal_moves(Cur, TRUE) : get_flag(m) = EnPassant}
            = {m \in RuleLegalMoves(Cur) : get_flag(m) = EnPassant}

\* C8: in every position reached by make_move and unmake_move, castling right
\* i (0..3) being set implies that its corner (h1, a1, h8, a8) holds a rook of
\* the right's colour and that the king of that colour stands on its original
\* square; a right is thus cleared when the rook on its corner is captured
C8_RightImpliesRookAndKing ==
    result = "Ok" =>
        \A i \in 0..3 :
            castling_rights[i] =>
                LET color == i \div 2
                    corner == <<H1, A1, H8, A8>>[i + 1]
                    home == IF color = White THEN E1 ELSE E1 + 56
                IN /\ board[corner] = NewPiece(Rook, color)
                   /\ board[home] = NewPiece(King, color)

\* the move of a make_move step, the piece that makes it and whether it
\* captures
StepMove == move_history'[Len(move_history')].board_move

StepPiece == board[get_from_idx(StepMove)]

StepCaptures == ~is_none(board[get_to_idx(StepMove)]) \/ get_flag(StepMove) = EnPassant

\* C9: after make_move the half-move counter is 0 if the piece that moved was a
\* pawn (a promoting pawn and a pawn capturing en passant included) or if a
\* piece was captured, and the previous value plus 1 otherwise
C9_HalfMoveCounter ==
    [][MadeMove =>
          half_move' = IF get_piece_type(StepPiece) = Pawn \/ StepCaptures
                       THEN 0 ELSE half_move + 1]_vars

\* C10: after make_move the en passant target is the square behind the
\* destination of the pawn if the move has the pawn-two-up flag and -1 for
\* every other move, and unmake_move brings back the target that was in force
\* before the move
C10_EnPassantTarget ==
    [][MadeMove =>
          /\ en_passant' = IF get_flag(StepMove) = PawnTwoUp
                           THEN (IF get_color(StepPiece) = White
                                 THEN get_to_idx(StepMove) - 8
                                 ELSE get_to_idx(StepMove) + 8)
                           ELSE -1
          /\ unmake_move(Cur').en_passant = en_passant]_vars

\* a pawn has just moved two squares
C10_Witness ==
    /\ move_history # <<>>
    /\ get_flag(LastMove.board_move) = PawnTwoUp
    /\ en_passant # -1


\* ------------------------------------------------------------------ draws
\* the board k unmake_move calls back
RECURSIVE Before(_, _)
Before(b, k) == IF k = 0 THEN b ELSE Before(unmake_move(b), k - 1)

\* the hashes of the positions of the sequence played since parse_fen: the one
\* each move was made in (the parsed position first), then the current one
SequenceHashes ==
    [k \in 1..(Len(move_history) + 1) |->
        IF k <= Len(move_history) THEN move_history[k].zobrist_hash ELSE zobrist_hash]

\* move k of the sequence moved a pawn or captured something
PawnMoveOrCapture(k) ==
    LET m == move_history[k].board_move
        position == Before(Cur, Len(move_history) - k + 1)
    IN \/ get_piece_type(position.board[get_from_idx(m)]) = Pawn
       \/ position.board[get_to_idx(m)] # None
       \/ get_flag(m) = EnPassant

\* the current position is the third (or later) of the sequence with its hash,
\* the sequence has no pawn move and no capture, and no position of it with
\* another hash uses the table slot of the current one
ThirdOccurrence ==
    /\ result = "Ok"
    /\ \A k \in 1..Len(move_history) : ~PawnMoveOrCapture(k)
    /\ Cardinality({k \in 1..Len(move_history) : SequenceHashes[k] = zobrist_hash}) >= 2
    /\ \A k \in 1..Len(move_history) :
          SequenceHashes[k] # zobrist_hash => Slot(SequenceHashes[k]) # Slot(zobrist_hash)

\* C11: when the position after the last of a sequence of non-search makes
\* without pawn move or capture has the hash of two earlier positions of the
\* sequence, and no other position of the sequence uses its table slot,
\* is_draw() returns true
C11_ThreefoldIsDraw == ThirdOccurrence => is_draw(Cur)

\* a position has come back twice while the fifty-move rule does not apply
C11_Witness == ThirdOccurrence /\ half_move < 100 /\ Len(move_history) = 8

\* C12: from the moment the half-move counter reaches 100, and for as long as
\* no pawn move or capture resets it, is_draw() returns true
C12_FiftyMoveRuleStays == (result = "Ok" /\ half_move >= 100) => is_draw(Cur)

\* the step is a make_move out of search
NonSearchMadeMove ==
    MadeMove /\ Cur' = make_move(Cur, move_history'[Len(move_history')].board_move, FALSE)

\* the step is a parse_fen that returned Ok
ParsedOk == makes' = 0 /\ result' = "Ok"

FenExpected(fen) ==
    LET placement == fen[1]
        has(ch) == \E k \in 1..Len(placement) : placement[k] = ch
        squares == parse_position(ChessBoard_new, placement, 1, 0, 7).board
        opponent == IF fen[2] = <<"b">> THEN White ELSE Black
    IN IF ~has("K") THEN "NoWhiteKing"
       ELSE IF ~has("k") THEN "NoBlackKing"
       ELSE IF RuleInCheck(squares, opponent) THEN "OpponentInCheck"
       ELSE "Ok"

\* C14: parse_fen returns NoWhiteKing without a white king, NoBlackKing with a
\* white king and no black king, OpponentInCheck when both kings are there and
\* the king of the side not to move is attacked, and Ok in every other case
C14_ParseFenResult ==
    makes = 0 => \A fen \in FENS : parse_fen(Cur, fen)[2] = FenExpected(fen)

\* a parse_fen has returned OpponentInCheck and left the board cleared
C14_Witness ==
    /\ result = "OpponentInCheck"
    /\ board = [sq \in ALL |-> None]
    /\ \E fen \in FENS : FenExpected(fen) = "OpponentInCheck" /\ fen[2] = <<"b">>

\* ------------------------------------------------------------------ checked makes
\* C15: make_move_checked(m) returns false and make_move_uci(s) returns None,
\* leaving the whole position as it was, when the move is not a legal move of
\* the current position; when it is, the move is applied as a non-search make
\* and true / Some(()) is returned
C15_CheckedMakeAppliesExactlyLegalMoves ==
    (result = "Ok" /\ makes < MaxCheckedMakes) =>
        /\ \A m \in CheckedMoves(Cur) :
              make_move_checked(Cur, m) =
                  IF m \in RuleLegalMoves(Cur) THEN <<make_move(Cur, m, FALSE), TRUE>>
                  ELSE <<Cur, FALSE>>
        /\ \A uci \in CheckedUcis(Cur) :
              make_move_uci(Cur, uci) =
                  IF \E m \in RuleLegalMoves(Cur) : to_uci(m) = uci
                  THEN {<<make_move(Cur, m, FALSE), "Some">> :
                          m \in {n \in RuleLegalMoves(Cur) : to_uci(n) = uci}}
                  ELSE {<<Cur, "None">>}

\* ------------------------------------------------------------------ FEN round trip
\* every move made since parse_fen was legal by the rules of chess in the
\* position it was made in
LegalHistory ==
    \A k \in 1..Len(move_history) :
        move_history[k].board_move \in RuleLegalMoves(Before(Cur, Len(move_history) - k + 1))

\* a fresh board after parse_fen of the text to_fen gives for the current one
Reparsed == parse_fen(ChessBoard_new, split(to_fen(Cur), 1, <<>>, <<>>))

\* the fields of a board that a FEN text describes
FenFields(b) ==
    <<b.board, b.bitboards, b.side_bitboards, b.turn, b.castling_rights, b.en_passant,
      b.half_move, b.full_move>>

\* C16: for a position reached from a valid FEN by legal moves, parsing its
\* to_fen text into a fresh board succeeds and gives the same mailbox,
\* bitboards, side to move, castling rights, en passant target and counters
C16_FenRoundTrip ==
    (result = "Ok" /\ LegalHistory) =>
        LET reparsed == Reparsed
        IN /\ reparsed[2] = "Ok"
           /\ FenFields(reparsed[1]) = FenFields(Cur)

\* a position after a legal pawn double step by black, castling rights left,
\* counters of more than one digit
C16_Witness ==
    /\ result = "Ok" /\ LegalHistory /\ move_history # <<>>
    /\ en_passant # -1 /\ turn = White
    /\ \E i \in 0..3 : castling_rights[i]
    /\ full_move >= 10

\* ------------------------------------------------------------------ perft
\* the position after move m by the rules: the mailbox, the side to move, the
\* en passant target (the square a double step passed over) and the castling
\* rights (lost when the king or the rook of the right moves or the rook is
\* captured)
RuleMake(b, m) ==
    LET from == get_from_idx(m)
        to == get_to_idx(m)
        touched(right) ==
            LET home == IF right < 2 THEN E1 ELSE E1 + 56
                corner == CASE right = 0 -> H1 [] right = 1 -> A1 [] right = 2 -> H8 [] OTHER -> A8
            IN {from, to} \cap {home, corner} # {}
    IN [board |-> RuleApply(b.board, m),
        turn |-> flipped(b.turn),
        en_passant |-> IF get_flag(m) = PawnTwoUp THEN (from + to) \div 2 ELSE -1,
        castling_rights |-> [right \in 0..3 |-> b.castling_rights[right] /\ ~touched(right)]]

\* the number of sequences of exactly depth legal moves from position b;
\* RulePerftSum adds it up over the first moves still to count
RECURSIVE RulePerft(_, _), RulePerftSum(_, _, _)
RulePerft(b, depth) ==
    IF depth = 0 THEN 1 ELSE RulePerftSum(b, RuleLegalMoves(b), depth)

RulePerftSum(b, moves, depth) ==
    IF moves = {} THEN 0
    ELSE LET m == Min(moves)
         IN RulePerft(RuleMake(b, m), depth - 1) + RulePerftSum(b, moves \ {m}, depth)

\* C17: perft(0) is 1 and perft(d) is the number of sequences of exactly d
\* legal moves from the current position, the sum over the legal moves m of
\* perft(d - 1) in the position after m; 20 and 400 at depths 1 and 2 from the
\* standard starting position
C17_PerftCountsLegalSequences ==
    result = "Ok" =>
        /\ \A depth \in 0..MaxPerftDepth : perft(Cur, depth)[2] = RulePerft(Cur, depth)
        /\ (makes = 0 /\ STARTPOS_FEN = split(to_fen(Cur), 1, <<>>, <<>>)) =>
               perft(Cur, 1)[2] = 20 /\ perft(Cur, 2)[2] = 400

\* ------------------------------------------------------------------ captures, promotions, castles
\* move m of the side to move takes an enemy piece, en passant included
Captures(m) ==
    \/ /\ ~is_none(board[get_to_idx(m)])
       /\ get_color(board[get_to_idx(m)]) # turn
    \/ /\ get_flag(m) = EnPassant
       /\ board[get_to_idx(m) + (IF turn = White THEN -8 ELSE 8)] = NewPiece(Pawn, flipped(turn))

\* the side to move has a king: get_legal_moves scans its king bitboard for
\* the king square, which an empty bitboard does not have
MoverHasKing == bitboards[get_side_index(King, turn)] # {}

\* C18: with quiets = false every emitted move captures an enemy piece (en
\* passant included) or promotes to queen; no castle, no other move without a
\* capture and no promotion to rook, bishop or knight is emitted
C18_CapturesOnly ==
    (result = "Ok" /\ MoverHasKing) =>
        \A m \in get_legal_moves(Cur, FALSE) :
            /\ Captures(m) \/ get_flag(m) = PromoteQueen
            /\ get_flag(m) \notin {Castle, PawnTwoUp, PromoteRook, PromoteBishop, PromoteKnight}

\* a capture search has made a capture that promotes to queen, in a position
\* where quiet moves and the other promotions were there with quiets = true
C18_Witness ==
    /\ move_history # <<>>
    /\ get_flag(LastMove.board_move) = PromoteQueen
    /\ LastMove.captured # None
    /\ LET before == unmake_move(Cur)
       IN /\ LastMove.board_move \in get_legal_moves(before, FALSE)
          /\ \E m \in get_legal_moves(before, TRUE) \ get_legal_moves(before, FALSE) :
                get_flag(m) = PromoteKnight /\ get_to_idx(m) = get_to_idx(LastMove.board_move)

\* C19: the promote-to-queen push of a pawn one step from its promotion rank,
\* its forward square empty and the push legal, is emitted with quiets true
\* and with quiets false; the rook, bishop and knight pushes only with quiets
\* true
C19_QueenPushAlwaysEmitted ==
    result = "Ok" =>
        \A a \in {a \in ALL : /\ board[a] = NewPiece(Pawn, turn)
                               /\ get_rank(a) = (IF turn = White THEN 6 ELSE 1)} :
            LET to == a + (IF turn = White THEN 8 ELSE -8)
            IN (is_none(board[to]) /\ NewMove(a, to, PromoteQueen) \in RuleLegalMoves(Cur)) =>
                  /\ NewMove(a, to, PromoteQueen) \in get_legal_moves(Cur, TRUE)
                  /\ NewMove(a, to, PromoteQueen) \in get_legal_moves(Cur, FALSE)
                  /\ \A flag \in {PromoteRook, PromoteBishop, PromoteKnight} :
                        /\ NewMove(a, to, flag) \in get_legal_moves(Cur, TRUE)
                        /\ NewMove(a, to, flag) \notin get_legal_moves(Cur, FALSE)

\* the conditions of the claim for the castle of the side to move towards the
\* corner on the king side (king_side) or the queen side
CastleConditions(quiets, king_side) ==
    LET home == IF turn = White THEN E1 ELSE E1 + 56
        corner == IF king_side THEN home + 3 ELSE home - 4
        step == IF king_side THEN 1 ELSE -1
        right == 2 * turn + (IF king_side THEN 0 ELSE 1)
    IN /\ quiets
       /\ ~RuleInCheck(board, turn)
       /\ castling_rights[right]
       /\ board[corner] = NewPiece(Rook, turn)
       /\ \A between \in RuleBetween(home, corner) : is_none(board[between])
       /\ \A crossed \in {home + step, home + 2 * step} :
             ~RuleAttacked(board, crossed, flipped(turn))

\* C20: a castle is emitted exactly when quiets is asked for, the mover's king
\* is not in check, the right of that side is set, a rook of the mover stands
\* on that side's corner, the squares between king and rook are empty and the
\* two squares the king crosses and lands on are not attacked; the b file
\* square may be attacked
C20_CastleExactlyWhenAllowed ==
    (result = "Ok" /\ MoverHasKing) =>
        \A quiets \in BOOLEAN :
            {m \in get_legal_moves(Cur, quiets) : get_flag(m) = Castle}
            = {NewMove(home, home + 2, Castle) :
                  home \in {h \in {IF turn = White THEN E1 ELSE E1 + 56} :
                              CastleConditions(quiets, TRUE)}}
              \cup {NewMove(home, home - 2, Castle) :
                  home \in {h \in {IF turn = White THEN E1 ELSE E1 + 56} :
                              CastleConditions(quiets, FALSE)}}

\* the queen side castle has been made across an attacked b file square
C20_Witness ==
    /\ move_history # <<>>
    /\ get_flag(LastMove.board_move) = Castle
    /\ get_to_idx(LastMove.board_move) = C1
    /\ RuleAttacked(board, 1, turn)

\* ------------------------------------------------------------------ the table after a reset
\* C21: after a make_move out of search of a pawn move (en passant and
\* promotions included) or of a capture the repetition table holds the new
\* position with count 1 in the slot of its hash and every other slot is empty
C21_TableHoldsOnlyNewPosition ==
    [][(NonSearchMadeMove /\ (get_piece_type(StepPiece) = Pawn \/ StepCaptures)) =>
          repetitions' = [key \in DOMAIN repetitions |->
                             IF key = Slot(zobrist_hash')
                             THEN [zobrist_hash |-> zobrist_hash', repetitions |-> 1]
                             ELSE RepetitionEntry_new]]_vars

C30_EmptyTableKnowsNoHash ==
    \A table \in {RepetitionTable_new, RepetitionTable_clear(repetitions)} :
        \A hash \in TABLE_HASHES :
            /\ get_repetitions(table, hash) = <<>>
            /\ increment_existing_repetition(table, hash)[2] = FALSE
            /\ decrement_repetition(table, hash)[2] = FALSE

\* ------------------------------------------------------------------ castling after the rook is lost
\* the corner a castling right belongs to: h1, a1, h8, a8 for the rights 0..3
CornerOf(right) == IF right = 0 THEN H1 ELSE IF right = 1 THEN A1 ELSE IF right = 2 THEN H8 ELSE A8

\* the castle move of a right: the king goes from e1 or e8 to the g or c file
CastleOf(right) ==
    NewMove(E1 + 56 * (right \div 2),
            (IF right % 2 = 0 THEN G1 ELSE C1) + 56 * (right \div 2), Castle)

\* a move of the game has captured the rook of that right on its corner
RookCapturedOnCorner(right) ==
    \E k \in 1..Len(move_history) :
        /\ move_history[k].captured = NewPiece(Rook, right \div 2)
        /\ get_to_idx(move_history[k].board_move) = CornerOf(right)
        /\ get_flag(move_history[k].board_move) # EnPassant

\* C25: once a rook has been captured on its corner the generator emits no
\* castle on that side for that colour in any later position, also when
\* another rook of the colour stands on the corner and the king has not moved
C25_NoCastleAfterRookCaptured ==
    result = "Ok" =>
        \A right \in 0..3 :
            (RookCapturedOnCorner(right) /\ turn = right \div 2) =>
                CastleOf(right) \notin get_legal_moves(Cur, TRUE)

\* ------------------------------------------------------------------ counts that go below 0
\* the step is an unmake_move
UnmadeMove == move_history # <<>> /\ Len(move_history') = Len(move_history) - 1

\* C26: in every sequence of make_move and unmake_move calls, in and out of
\* search, decrement_repetition is never applied to a slot that stores the
\* hash with count 0: the count never goes below 0
C26_CountNeverUnderflows ==
    [][(UnmadeMove /\ LastMove.repetition_saved) =>
          LET reps == get_repetitions(repetitions, zobrist_hash)
          IN reps = <<>> \/ reps[1] > 0]_vars

\* ------------------------------------------------------------------ the attack maps
\* the rows filled are those of the squares a1, b2, c3, ... of the long
\* diagonal, up to this many steps from a1
MaxMagicDiagonal == 3

MAGIC_SQUARES == {9 * k : k \in 0..MaxMagicDiagonal}

SLIDERS == {"rook", "bishop"}

\* every blocker bitboard of the row has been stored
RowComplete(m) ==
    m.slider \in SLIDERS /\ m.pattern_index = num_patterns(slider_mask(m.slider, m.square))

\* `for square in 0..64`: the row of the next square starts zeroed
BeginRow(slider, square) ==
    /\ attack_map = ATTACK_MAP_UNSET \/ RowComplete(attack_map)
    /\ attack_map' = [slider |-> slider, square |-> square, pattern_index |-> 0,
                      row |-> [key \in 0..(map_size(slider) - 1) |-> {}]]
    /\ UNCHANGED <<bitboards, side_bitboards, board, turn, en_passant, castling_rights,
                   half_move, full_move, zobrist_hash, repetitions, move_history, result, makes>>

\* `for b in blockers`: the next blocker bitboard is stored
StoreAttack ==
    /\ attack_map.slider \in SLIDERS
    /\ ~RowComplete(attack_map)
    /\ attack_map' = [attack_map EXCEPT
                         !.row = store_attack(@, attack_map.slider, attack_map.square,
                                              attack_map.pattern_index),
                         !.pattern_index = @ + 1]
    /\ UNCHANGED <<bitboards, side_bitboards, board, turn, en_passant, castling_rights,
                   half_move, full_move, zobrist_hash, repetitions, move_history, result, makes>>

NextMagic ==
    \/ \E slider \in SLIDERS : \E square \in MAGIC_SQUARES : BeginRow(slider, square)
    \/ StoreAttack

SpecMagic == Init /\ [][NextMagic]_vars

\* the step stores a blocker bitboard
StoredAttack == attack_map'.pattern_index = attack_map.pattern_index + 1

\* get_rook_magic / get_bishop_magic as the move generator uses them
get_magic(slider, square, blockers) ==
    IF slider = "rook" THEN get_rook_magic(square, blockers)
    ELSE get_bishop_magic(square, blockers)

\* the lookup in row m.row for blockers is the ray walk, and so is what the
\* move generator of this model computes
LookupIsRayWalk(m, blockers) ==
    /\ magic_lookup(m.row, m.slider, m.square, blockers)
          = slider_attack_mask(m.slider, m.square, blockers)
    /\ get_magic(m.slider, m.square, blockers)
          = slider_attack_mask(m.slider, m.square, blockers)

PARSE_FENS == {FEN_NO_CASTLING_FIELD, POSITION_3, FEN_ROOK_CAPTURE, FEN_CASTLE_KING_SIDE}

\* most make_move calls explored after one parse_fen of PARSE_FENS
MaxParseMakes == 1

NextParse ==
    \/ \E fen \in PARSE_FENS : ParseFen(fen)
    \/ \E chess_move \in (IF result = "Ok" /\ makes < MaxParseMakes
                          THEN get_legal_moves(Cur, TRUE) ELSE {}) :
          MakeMove(chess_move, FALSE)
    \/ UnmakeMove

SpecParse == Init /\ [][NextParse]_vars

\* what the claim compares of a parsed board
ParsedPosition(b) ==
    [bitboards |-> b.bitboards, side_bitboards |-> b.side_bitboards, board |-> b.board,
     turn |-> b.turn, castling_rights |-> b.castling_rights, en_passant |-> b.en_passant,
     half_move |-> b.half_move, full_move |-> b.full_move, zobrist_hash |-> b.zobrist_hash]

\* C28: parse_fen(s) returning Ok gives the same pieces, side to move, castling
\* rights, en passant target, counters and hash on the board as it is now as on
\* a new board, for every string s, those with trailing fields left out included
C28_ParseDependsOnStringOnly ==
    \A fen \in PARSE_FENS :
        parse_fen(Cur, fen)[2] = "Ok" =>
            ParsedPosition(parse_fen(Cur, fen)[1]) =
                ParsedPosition(parse_fen(ChessBoard_new, fen)[1])

\* ------------------------------------------------------------------ the half-move counter
\* positions whose half-move field is near the end of the u8 range
HALF_FENS == {FEN_HALF_MOVE_MAX, FEN_HALF_MOVE_NEAR}

\* most make_move calls explored after one parse_fen of HALF_FENS
MaxHalfMakes == 2

NextHalf ==
    \/ \E fen \in HALF_FENS : ParseFen(fen)
    \/ \E chess_move \in (IF result = "Ok" /\ makes < MaxHalfMakes
                          THEN get_legal_moves(Cur, TRUE) ELSE {}) :
          \E is_in_search \in BOOLEAN : MakeMove(chess_move, is_in_search)

SpecHalf == Init /\ [][NextHalf]_vars

\* the step is a make_move that took the `self.half_move += 1` branch: not the
\* en passant arm, nothing captured, and the piece written to the target
\* square is no pawn
HalfMoveIncremented ==
    /\ MadeMove
    /\ get_flag(StepMove) # EnPassant
    /\ is_none(board[get_to_idx(StepMove)])
    /\ get_piece_type(board'[get_to_idx(StepMove)]) # Pawn

\* C29: make_move adds 1 to the half-move counter only when the counter is
\* below 255
C29_HalfMoveNeverOverflows ==
    [][HalfMoveIncremented => half_move < 255]_vars

\* ------------------------------------------------------------------ perft and the table
\* C27: perft(d) leaves the repetition table as it was before the call
C27_PerftRestoresTable ==
    result = "Ok" =>
        \A depth \in 0..MaxPerftDepth : perft(Cur, depth)[1].repetitions = repetitions

====
